---------------------------- MODULE Spec2Model ----------------------------
(***************************************************************************)
(* A model of the rose-engine lathe core of the turtles crate:             *)
(*   rust/src/rose_engine/{rosette,config,cutting_bit,lathe,lathe_run}.rs  *)
(* and of the closed-form reference layers the lathe run reproduces        *)
(* (rust/src/diamant.rs, ...).                                             *)
(*                                                                         *)
(* Numbers.  The program computes in f64.  The model computes in fixed     *)
(* point: a length or a ratio r is the integer r * Scale, an angle is an   *)
(* integer number of grid steps with Turn steps to the full circle         *)
(* (2*pi).  Division truncates toward zero.  The inputs the model draws    *)
(* lie on the grid (resolutions divide Turn), so the angles of the sample  *)
(* points are exact; two point sequences that are equal in the model are   *)
(* the ones the program computes by the same arithmetic on the same        *)
(* operands.                                                               *)
(*                                                                         *)
(* Instances.  RoseEngineLathe and RoseEngineLatheRun values own all of    *)
(* their data and share nothing, so a behaviour of Spec follows the life   *)
(* of one instance of either type: constructed, then any sequence of       *)
(* generate() and export calls.                                            *)
(***************************************************************************)
EXTENDS Integers, Sequences, FiniteSets, TLC

VARIABLES
    lathe,      \* the RoseEngineLathe instance, or None
    run,        \* the RoseEngineLatheRun instance, or None
    call,       \* the last public call: its name and arguments
    result,     \* what the last public call returned
    branch,     \* history: the generation path the last run.generate() took
    hist,       \* history: the constructor call, and what was called since
    segIn,      \* segment_path alone: the path and segments_per_pass given
    segOut      \* segment_path alone: the polylines it pushed

vars == <<lathe, run, call, result, branch, hist, segIn, segOut>>

None == [kind |-> "None"]

-----------------------------------------------------------------------------
(* Fixed-point arithmetic standing for f64.                                *)

Scale == 1000
Turn == 720
PI == Turn \div 2

Abs(a) == IF a < 0 THEN -a ELSE a
Sgn(a) == IF a < 0 THEN -1 ELSE IF a > 0 THEN 1 ELSE 0
Min(a, b) == IF a <= b THEN a ELSE b
Max(a, b) == IF a >= b THEN a ELSE b

\* a / b on integers, truncating toward zero as a float-to-grid conversion does
TDiv(a, b) == Sgn(a) * Sgn(b) * (Abs(a) \div Abs(b))

\* x * y and x / y of two fixed-point values
FMul(x, y) == TDiv(x * y, Scale)
FDiv(x, y) == TDiv(x * Scale, y)

\* fixed-point value of the integer n (`n as f64`)
F(n) == n * Scale

RECURSIVE IsqrtFrom(_, _)
IsqrtFrom(n, r) ==
    LET r2 == (r + n \div r) \div 2
    IN  IF r2 >= r THEN r ELSE IsqrtFrom(n, r2)

\* floor of the square root of n >= 0 (Newton's iteration)
Isqrt(n) == IF n <= 0 THEN 0 ELSE IsqrtFrom(n, n)

\* f64::sqrt of a fixed-point value
FSqrt(x) == Isqrt(x * Scale)

\* sin on the first quarter turn, one entry per grid step, times Scale
SinTab ==
    << 0, 9, 17, 26, 35, 44, 52, 61, 70, 78, 87, 96,
       105, 113, 122, 131, 139, 148, 156, 165, 174, 182, 191, 199,
       208, 216, 225, 233, 242, 250, 259, 267, 276, 284, 292, 301,
       309, 317, 326, 334, 342, 350, 358, 367, 375, 383, 391, 399,
       407, 415, 423, 431, 438, 446, 454, 462, 469, 477, 485, 492,
       500, 508, 515, 522, 530, 537, 545, 552, 559, 566, 574, 581,
       588, 595, 602, 609, 616, 623, 629, 636, 643, 649, 656, 663,
       669, 676, 682, 688, 695, 701, 707, 713, 719, 725, 731, 737,
       743, 749, 755, 760, 766, 772, 777, 783, 788, 793, 799, 804,
       809, 814, 819, 824, 829, 834, 839, 843, 848, 853, 857, 862,
       866, 870, 875, 879, 883, 887, 891, 895, 899, 903, 906, 910,
       914, 917, 921, 924, 927, 930, 934, 937, 940, 943, 946, 948,
       951, 954, 956, 959, 961, 964, 966, 968, 970, 972, 974, 976,
       978, 980, 982, 983, 985, 986, 988, 989, 990, 991, 993, 994,
       995, 995, 996, 997, 998, 998, 999, 999, 999, 1000, 1000, 1000,
       1000 >>

\* the sign of sin and the index of its magnitude in SinTab, for an angle m
\* in 0..Turn-1
SinSign(m) == IF m <= Turn \div 2 THEN 1 ELSE -1
SinIndex(m) ==
    IF m <= Turn \div 4 THEN m
    ELSE IF m <= Turn \div 2 THEN Turn \div 2 - m
    ELSE IF m <= 3 * (Turn \div 4) THEN m - Turn \div 2
    ELSE Turn - m

\* f64::sin and f64::cos of an angle in grid steps
Sin(a) == SinSign(a % Turn) * SinTab[SinIndex(a % Turn) + 1]

Cos(a) == Sin(a + Turn \div 4)

\* atan(q / 64) in grid steps, q = 0..64
AtanTab ==
    << 0, 2, 4, 5, 7, 9, 11, 12, 14, 16, 18, 20,
       21, 23, 25, 26, 28, 30, 31, 33, 35, 36, 38, 40,
       41, 43, 44, 46, 47, 49, 50, 52, 53, 55, 56, 57,
       59, 60, 61, 63, 64, 65, 67, 68, 69, 70, 71, 73,
       74, 75, 76, 77, 78, 79, 80, 81, 82, 83, 84, 85,
       86, 87, 88, 89, 90 >>

\* the angle in (-PI, PI] whose tangent has magnitude tan(t), t in the first
\* octant, placed by the signs and order of dy and dx
AtanPlace(dy, dx, t) ==
    LET oct == IF Abs(dy) > Abs(dx) THEN Turn \div 4 - t ELSE t
    IN  (IF dy < 0 THEN -1 ELSE 1) * (IF dx < 0 THEN PI - oct ELSE oct)

\* f64::atan2(dy, dx) in grid steps, in (-PI, PI]; atan2(0, 0) = 0
Atan2(dy, dx) ==
    IF dx = 0 /\ dy = 0 THEN 0
    ELSE AtanPlace(dy, dx,
                   AtanTab[(Min(Abs(dx), Abs(dy)) * (Len(AtanTab) - 1))
                           \div Max(Abs(dx), Abs(dy)) + 1])

-----------------------------------------------------------------------------
(* common.rs                                                               *)

Point2D(x, y) == [x |-> x, y |-> y]


-----------------------------------------------------------------------------
(* rose_engine/rosette.rs                                                  *)

RECURSIVE FPowi(_, _)
\* f64::powi(x, n) for n >= 0
FPowi(x, n) == IF n = 0 THEN Scale ELSE FMul(x, FPowi(x, n - 1))

Circular == [variant |-> "Circular"]
Elliptical(eccentricity, rotation) ==
    [variant |-> "Elliptical", eccentricity |-> eccentricity, rotation |-> rotation]
Sinusoidal(frequency) == [variant |-> "Sinusoidal", frequency |-> frequency]
MultiLobe(lobes) == [variant |-> "MultiLobe", lobes |-> lobes]
Epicycloid(petals) == [variant |-> "Epicycloid", petals |-> petals]
HuitEight(lobes) == [variant |-> "HuitEight", lobes |-> lobes]
GrainDeRiz(grain_size, rows) ==
    [variant |-> "GrainDeRiz", grain_size |-> grain_size, rows |-> rows]
Draperie(frequency, wave_exponent) ==
    [variant |-> "Draperie", frequency |-> frequency, wave_exponent |-> wave_exponent]
Paon(frequency) == [variant |-> "Paon", frequency |-> frequency]
Diamant(divisions) == [variant |-> "Diamant", divisions |-> divisions]
Custom(table, samples) == [variant |-> "Custom", table |-> table, samples |-> samples]

\* RosettePattern::default()
DefaultLobes == 12
RosettePattern_default == MultiLobe(DefaultLobes)

\* a * b / sqrt((b cos)^2 + (a sin)^2) with the semi-major axis a = 1.0: the
\* radius of the ellipse at an angle, from its cosine and sine
EllipseRadius(b, cos_a, sin_a) ==
    FDiv(b, FSqrt(FMul(FMul(b, cos_a), FMul(b, cos_a)) + FMul(sin_a, sin_a)))

displacement_Elliptical(self, angle) ==
    FMul(EllipseRadius(FDiv(Scale, self.eccentricity),
                       Cos(angle - self.rotation), Sin(angle - self.rotation))
         - Scale,
         self.eccentricity)

displacement_Custom(self, angle) ==
    LET index_f == TDiv((angle % Turn) * self.samples * Scale, Turn)
        index == (index_f \div Scale) % self.samples
        next_index == (index + 1) % self.samples
        t == index_f % Scale
    IN  FMul(self.table[index + 1], Scale - t) + FMul(self.table[next_index + 1], t)

\* RosettePattern::displacement(&self, angle)
displacement(self, angle) ==
    CASE self.variant = "Circular" -> 0
      [] self.variant = "Elliptical" -> displacement_Elliptical(self, angle)
      [] self.variant = "Sinusoidal" -> Sin(FMul(angle, self.frequency))
      [] self.variant = "MultiLobe" ->
            LET phase == TDiv(angle * self.lobes, 2)
            IN  Abs(Sin(phase)) * 2 - Scale
      [] self.variant = "Epicycloid" -> Cos(angle * self.petals)
      [] self.variant = "HuitEight" ->
            FMul(Sin(angle * self.lobes), Cos(TDiv(angle, 2)))
      [] self.variant = "GrainDeRiz" ->
            LET row_angle == angle * self.rows
                grain_modulation == Sin(FDiv(angle, self.grain_size))
            IN  FMul(Abs(Sin(row_angle)), grain_modulation)
      [] self.variant = "Draperie" ->
            LET s == Sin(FMul(angle, self.frequency))
            IN  IF self.wave_exponent <= 1 THEN s
                ELSE FPowi(Abs(s), self.wave_exponent) * (IF s < 0 THEN -1 ELSE 1)
      [] self.variant = "Paon" -> Sin(FMul(angle, self.frequency))
      [] self.variant = "Diamant" ->
            LET wave1 == Sin(angle * self.divisions)
                wave2 == Sin(angle * self.divisions + PI \div 4)
            IN  TDiv(Abs(wave1) + Abs(wave2), 2) * 2 - Scale
      [] self.variant = "Custom" -> displacement_Custom(self, angle)

-----------------------------------------------------------------------------
(* rose_engine/config.rs                                                   *)

DefaultResolution == 1000

\* RoseEngineConfig::new(base_radius, amplitude)
RoseEngineConfig_new(base_radius, amplitude) ==
    [ rosette |-> RosettePattern_default,
      amplitude |-> amplitude,
      base_radius |-> base_radius,
      phase |-> 0,
      start_angle |-> 0,
      end_angle |-> PI * 2,
      resolution |-> DefaultResolution,
      secondary_rosette |-> None,
      secondary_amplitude |-> 0,
      secondary_phase |-> 0,
      depth_modulation |-> FALSE,
      depth_modulation_amplitude |-> 0,
      depth_modulation_frequency |-> Scale ]

\* RoseEngineConfig::with_secondary_rosette(&mut self, rosette, amplitude)
with_secondary_rosette(self, rosette, amplitude) ==
    [self EXCEPT !.secondary_rosette = rosette, !.secondary_amplitude = amplitude]

\* RoseEngineConfig::with_depth_modulation(&mut self, amplitude, frequency)
with_depth_modulation(self, amplitude, frequency) ==
    [self EXCEPT !.depth_modulation = TRUE,
                 !.depth_modulation_amplitude = amplitude,
                 !.depth_modulation_frequency = frequency]

\* the secondary term of radius_at_angle
SecondaryDisplacement(self, angle) ==
    IF self.secondary_rosette # None
    THEN FMul(self.secondary_amplitude,
              displacement(self.secondary_rosette, angle + self.secondary_phase))
    ELSE 0

\* RoseEngineConfig::radius_at_angle(&self, angle)
radius_at_angle(self, angle) ==
    self.base_radius
    + (FMul(self.amplitude, displacement(self.rosette, angle + self.phase))
       + SecondaryDisplacement(self, angle))

\* RoseEngineConfig::depth_at_angle(&self, angle, base_depth)
depth_at_angle(self, angle, base_depth) ==
    IF ~self.depth_modulation THEN base_depth
    ELSE FMul(base_depth,
              Scale + FMul(self.depth_modulation_amplitude,
                           Sin(FMul(angle, self.depth_modulation_frequency))))

-----------------------------------------------------------------------------
(* rose_engine/cutting_bit.rs                                              *)

\* f64::tan of an angle in grid steps (the model never takes it at a pole)
Tan(a) == FDiv(Sin(a), Cos(a))

\* CuttingBit::v_shaped(angle, width): angle in whole degrees, so
\* angle.to_radians() / 2.0 is `angle` grid steps of half a degree
v_shaped(angle, width) ==
    [ shape |-> [variant |-> "VShaped", angle |-> angle],
      width |-> width,
      depth |-> FDiv(TDiv(width, 2), Tan(TDiv(angle * (Turn \div 360), 2))) ]

\* CuttingBit::flat(width, depth)
flat(width, depth) ==
    [ shape |-> [variant |-> "Flat"], width |-> width, depth |-> depth ]

\* CuttingBit::round(diameter)
round(diameter) ==
    [ shape |-> [variant |-> "Round"], width |-> diameter, depth |-> TDiv(diameter, 2) ]

-----------------------------------------------------------------------------
(* rose_engine/lathe.rs                                                    *)

Ok == "Ok"
InvalidParameter == "InvalidParameter"
NotGenerated == "ExportError: Pattern not generated. Call generate() first."
SaveFailed == "ExportError: failed to save"
StepUnimplemented == "ExportError: STEP export not yet implemented"

MinResolution == 10

\* Result<T, SpirographError>
OkOf(v) == [ok |-> TRUE, value |-> v]
Err(e) == [ok |-> FALSE, error |-> e]

\* the lathe as new_with_center builds it, nothing generated yet
FreshLathe(config, cutting_bit, center_x, center_y) ==
    [ kind |-> "Lathe",
      config |-> config,
      cutting_bit |-> cutting_bit,
      center_x |-> center_x,
      center_y |-> center_y,
      tool_path |-> <<>>,
      cut_geometry |-> [center_line |-> <<>>, cut_edges |-> <<>>, arcs |-> <<>>],
      rendered |-> [lines |-> <<>>, depth_map |-> <<>>, shading |-> <<>>],
      generated |-> FALSE ]

\* a constructor that does not test the amplitude
RoseEngineLathe_new_with_center_AnyAmplitude(config, cutting_bit, center_x, center_y) ==
    IF config.base_radius <= 0 THEN Err(InvalidParameter)
    ELSE IF config.resolution < MinResolution THEN Err(InvalidParameter)
    ELSE OkOf(FreshLathe(config, cutting_bit, center_x, center_y))

\* RoseEngineLathe::new_with_center(config, cutting_bit, center_x, center_y)
RoseEngineLathe_new_with_center(config, cutting_bit, center_x, center_y) ==
    IF config.base_radius <= 0 THEN Err(InvalidParameter)
    ELSE IF config.amplitude < 0 THEN Err(InvalidParameter)
    ELSE IF config.resolution < MinResolution THEN Err(InvalidParameter)
    ELSE OkOf(FreshLathe(config, cutting_bit, center_x, center_y))

\* RoseEngineLathe::new(config, cutting_bit)
RoseEngineLathe_new(config, cutting_bit) ==
    RoseEngineLathe_new_with_center(config, cutting_bit, 0, 0)

\* the angle of sample i, as generate_tool_path and generate_rendered_output
\* compute it
SampleAngle(config, i) ==
    LET angle_step == TDiv(config.end_angle - config.start_angle, config.resolution)
    IN  config.start_angle + i * angle_step

\* the point generate_tool_path pushes at an angle, from the radius there
ToolPoint(self, angle, radius) ==
    Point2D(self.center_x + FMul(radius, Cos(angle)),
            self.center_y + FMul(radius, Sin(angle)))

\* generate_tool_path with the loop `for i in 0..resolution`: the closing
\* point is not pushed
ToolPathPoints_HalfOpen(self) ==
    [ k \in 1..self.config.resolution |->
        ToolPoint(self, SampleAngle(self.config, k - 1),
                  radius_at_angle(self.config, SampleAngle(self.config, k - 1))) ]

\* the points generate_tool_path pushes, for i in 0..=resolution
ToolPathPoints(self) ==
    [ k \in 1..(self.config.resolution + 1) |->
        ToolPoint(self, SampleAngle(self.config, k - 1),
                  radius_at_angle(self.config, SampleAngle(self.config, k - 1))) ]

\* generate_tool_path without its `self.tool_path.clear()`
generate_tool_path_Append(self) ==
    [self EXCEPT !.tool_path = self.tool_path \o ToolPathPoints(self)]

\* RoseEngineLathe::generate_tool_path(&mut self): clear, then push
generate_tool_path(self) == [self EXCEPT !.tool_path = ToolPathPoints(self)]

\* (dx * dx + dy * dy).sqrt()
Hypot(dx, dy) == FSqrt(FMul(dx, dx) + FMul(dy, dy))

\* the angle of the average of the two unit vectors, or of the first vector
\* when one of them has no length
AverageTangent(dx1, dy1, dx2, dy2, len1, len2) ==
    IF len1 > 0 /\ len2 > 0
    THEN Atan2(TDiv(FDiv(dy1, len1) + FDiv(dy2, len2), 2),
               TDiv(FDiv(dx1, len1) + FDiv(dx2, len2), 2))
    ELSE Atan2(dy1, dx1)

\* the tangent angle at `cur`, between its neighbours
MiddleTangent(prev, cur, next) ==
    AverageTangent(cur.x - prev.x, cur.y - prev.y, next.x - cur.x, next.y - cur.y,
                   Hypot(cur.x - prev.x, cur.y - prev.y),
                   Hypot(next.x - cur.x, next.y - cur.y))

\* the tangent angle generate_cut_geometry takes at point i (0-based)
TangentAngle(tool_path, i) ==
    IF i = 0
    THEN Atan2(tool_path[2].y - tool_path[1].y, tool_path[2].x - tool_path[1].x)
    ELSE IF i = Len(tool_path) - 1
    THEN Atan2(tool_path[i + 1].y - tool_path[i].y,
               tool_path[i + 1].x - tool_path[i].x)
    ELSE MiddleTangent(tool_path[i], tool_path[i + 1], tool_path[i + 2])

\* (offset_x, offset_y) for a bit width and a perpendicular angle
OffsetAt(half_width, perp_angle) ==
    Point2D(FMul(half_width, Cos(perp_angle)), FMul(half_width, Sin(perp_angle)))

\* the offset of the two edges at point i
EdgeOffset(self, i) ==
    OffsetAt(TDiv(self.cutting_bit.width, 2),
             TangentAngle(self.tool_path, i) + PI \div 2)

\* left_edge and right_edge, from the tool path and the offsets at its points
EdgesFrom(tool_path, offset) ==
    << [ k \in 1..Len(tool_path) |->
           Point2D(tool_path[k].x - offset[k].x, tool_path[k].y - offset[k].y) ],
       [ k \in 1..Len(tool_path) |->
           Point2D(tool_path[k].x + offset[k].x, tool_path[k].y + offset[k].y) ] >>

\* the two edges generate_cut_geometry pushes: <<left_edge, right_edge>>
CutEdges(self) ==
    EdgesFrom(self.tool_path,
              [k \in 1..Len(self.tool_path) |-> EdgeOffset(self, k - 1)])

\* RoseEngineLathe::generate_cut_geometry(&mut self)
generate_cut_geometry(self) ==
    [self EXCEPT
        !.cut_geometry.center_line = self.tool_path,
        !.cut_geometry.arcs = <<>>,
        !.cut_geometry.cut_edges =
            IF Len(self.tool_path) < 2 THEN <<>> ELSE CutEdges(self)]

\* the shading sample generate_rendered_output derives from a depth
Shading(self, depth) ==
    IF self.cutting_bit.depth > 0
    THEN Scale - Min(FDiv(depth, self.cutting_bit.depth * 2), Scale)
    ELSE Scale \div 2

\* the depth samples generate_rendered_output pushes when depth modulation is on
DepthSamples(self) ==
    [ k \in 1..(self.config.resolution + 1) |->
        depth_at_angle(self.config, SampleAngle(self.config, k - 1),
                       self.cutting_bit.depth) ]

\* depth_map and shading, from the depth samples
DepthOutput(self, rendered, depths) ==
    [rendered EXCEPT
        !.depth_map = depths,
        !.shading = [k \in 1..Len(depths) |-> Shading(self, depths[k])]]

\* RoseEngineLathe::generate_rendered_output(&mut self): the three vectors are
\* cleared, then filled
generate_rendered_output(self) ==
    [self EXCEPT
        !.rendered =
            DepthOutput(self,
                        [lines |-> <<self.tool_path>> \o self.cut_geometry.cut_edges,
                         depth_map |-> <<>>,
                         shading |-> <<>>],
                        IF self.config.depth_modulation THEN DepthSamples(self)
                        ELSE <<>>)]

\* RoseEngineLathe::generate(&mut self)
RoseEngineLathe_generate(self) ==
    [generate_rendered_output(generate_cut_geometry(generate_tool_path(self)))
        EXCEPT !.generated = TRUE]

\* an export that never tests the generated flag
ExportRefused_Never(self) == FALSE

\* the `if !self.generated` test that opens to_svg, to_stl and to_step
ExportRefused(self) == ~self.generated

\* the polylines an SVG writer turns into paths: the empty ones are skipped
SvgPaths(lines) == SelectSeq(lines, LAMBDA line : line # <<>>)

\* a mesh with one triangle per path segment only
StlTriangles_OnePerSegment(self, depth) ==
    [ k \in 1..Max(Len(self.tool_path) - 1, 0) |->
        << <<self.tool_path[k].x, self.tool_path[k].y, 0>>,
           <<self.tool_path[k + 1].x, self.tool_path[k + 1].y, 0>>,
           <<self.tool_path[k].x, self.tool_path[k].y, -depth>> >> ]

\* the triangles RoseEngineLathe::to_stl builds: two per path segment
StlTriangles(self, depth) ==
    LET num_points == Len(self.tool_path)
        tri(i) ==
            LET p1 == self.tool_path[i + 1]
                p2 == self.tool_path[i + 2]
                v1_top == <<p1.x, p1.y, 0>>
                v2_top == <<p2.x, p2.y, 0>>
                v1_bottom == <<p1.x, p1.y, -depth>>
                v2_bottom == <<p2.x, p2.y, -depth>>
            IN  << <<v1_top, v2_top, v1_bottom>>, <<v2_top, v2_bottom, v1_bottom>> >>
    IN  [ k \in 1..(2 * Max(num_points - 1, 0)) |-> tri((k - 1) \div 2)[((k - 1) % 2) + 1] ]

-----------------------------------------------------------------------------
(* rose_engine/lathe_run.rs: construction                                  *)

\* the segments_per_pass RoseEngineLatheRun::new and new_with_center pass on
DefaultSegments == 24

\* the `Ok(RoseEngineLatheRun { ... })` that closes new_with_segments
RunFields(config, cutting_bit, num_passes, segments_per_pass, center_x, center_y) ==
    [ kind |-> "Run",
      base_config |-> config,
      cutting_bit |-> cutting_bit,
      num_passes |-> num_passes,
      segments_per_pass |-> segments_per_pass,
      radius_step |-> 0,
      phase_shift |-> 0,
      phase_oscillations |-> Scale,
      circular_phase |-> 0,
      phase_exponent |-> 1,
      center_x |-> center_x,
      center_y |-> center_y,
      linear_paon |-> None,
      circular_diamant |-> None,
      polar_limacon |-> None,
      concentric_flinque |-> None,
      circular_huiteight |-> None,
      passes |-> <<>>,
      segmented_lines |-> <<>>,
      generated |-> FALSE ]

\* new_with_segments with `base_radius < 0.0` for its third test: a base
\* radius of zero is let through
new_with_segments_ZeroRadius(config, cutting_bit, num_passes, segments_per_pass, center_x, center_y) ==
    IF num_passes = 0 THEN Err(InvalidParameter)
    ELSE IF segments_per_pass = 0 THEN Err(InvalidParameter)
    ELSE IF config.base_radius < 0 THEN Err(InvalidParameter)
    ELSE OkOf(RunFields(config, cutting_bit, num_passes, segments_per_pass,
                        center_x, center_y))

\* RoseEngineLatheRun::new_with_segments(config, cutting_bit, num_passes,
\*                                       segments_per_pass, center_x, center_y)
new_with_segments(config, cutting_bit, num_passes, segments_per_pass, center_x, center_y) ==
    IF num_passes = 0 THEN Err(InvalidParameter)
    ELSE IF segments_per_pass = 0 THEN Err(InvalidParameter)
    ELSE IF config.base_radius <= 0 THEN Err(InvalidParameter)
    ELSE OkOf(RunFields(config, cutting_bit, num_passes, segments_per_pass,
                        center_x, center_y))

\* RoseEngineLatheRun::new(config, cutting_bit, num_passes)
RoseEngineLatheRun_new(config, cutting_bit, num_passes) ==
    new_with_segments(config, cutting_bit, num_passes, DefaultSegments, 0, 0)

\* RoseEngineLatheRun::new_with_center(config, cutting_bit, num_passes, cx, cy)
RoseEngineLatheRun_new_with_center(config, cutting_bit, num_passes, center_x, center_y) ==
    new_with_segments(config, cutting_bit, num_passes, DefaultSegments,
                      center_x, center_y)

\* the bit every equivalence constructor uses: CuttingBit::v_shaped(30.0, 0.02)
EquivalenceBitAngle == 30
EquivalenceBitWidth == 20
EquivalenceBit == v_shaped(EquivalenceBitAngle, EquivalenceBitWidth)

\* `let mut run = Self::new_with_segments(...)?; run.<field> = value; Ok(run)`:
\* an Err is returned as it is, an Ok run gets the field
SetAfterOk(made, field, value) ==
    IF made.ok THEN OkOf([made.value EXCEPT ![field] = value]) ELSE made

\* RoseEngineLatheRun::new_diamant(num_circles, circle_radius, resolution, cx, cy)
new_diamant(num_circles, circle_radius, resolution, center_x, center_y) ==
    SetAfterOk(new_with_segments(RoseEngineConfig_new(circle_radius, circle_radius),
                                 EquivalenceBit, num_circles, 1, center_x, center_y),
               "circular_diamant",
               [ num_circles |-> num_circles,
                 circle_radius |-> circle_radius,
                 resolution |-> resolution ])

\* RoseEngineLatheRun::new_limacon(num_curves, base_radius, amplitude,
\*                                 resolution, cx, cy)
new_limacon(num_curves, base_radius, amplitude, resolution, center_x, center_y) ==
    LET re_config == [RoseEngineConfig_new(base_radius, amplitude) EXCEPT
                         !.rosette = Sinusoidal(Scale),
                         !.resolution = resolution]
    IN  new_with_segments(re_config, EquivalenceBit, num_curves, 1,
                          center_x, center_y)

\* RoseEngineLatheRun::new_flinque(radius, num_petals, num_waves,
\*     wave_amplitude, wave_frequency, inner_radius_ratio, cx, cy);
\* run.base_config is re_config, and its base_radius is then set to radius
new_flinque(radius, num_petals, num_waves, wave_amplitude, wave_frequency, inner_radius_ratio, center_x, center_y) ==
    SetAfterOk(
        SetAfterOk(new_with_segments(RoseEngineConfig_new(radius, TDiv(wave_amplitude, 2)),
                                     EquivalenceBit, num_waves, 1, center_x, center_y),
                   "concentric_flinque",
                   [ num_petals |-> num_petals,
                     num_waves |-> num_waves,
                     wave_amplitude |-> wave_amplitude,
                     wave_frequency |-> wave_frequency,
                     inner_radius_ratio |-> inner_radius_ratio ]),
        "base_config",
        [RoseEngineConfig_new(radius, TDiv(wave_amplitude, 2)) EXCEPT
            !.base_radius = radius])

\* RoseEngineLatheRun::new_huiteight(num_curves, scale, resolution, cx, cy,
\*                                   num_clusters, cluster_spread)
new_huiteight(num_curves, scale, resolution, center_x, center_y, num_clusters, cluster_spread) ==
    SetAfterOk(new_with_segments(RoseEngineConfig_new(scale, scale), EquivalenceBit,
                                 num_curves, 1, center_x, center_y),
               "circular_huiteight",
               [ num_curves |-> num_curves,
                 scale |-> scale,
                 resolution |-> resolution,
                 num_clusters |-> num_clusters,
                 cluster_spread |-> cluster_spread ])

\* RoseEngineLatheRun::new_paon(num_lines, radius, amplitude, wave_frequency,
\*     phase_rate, resolution, n_harmonics, fan_angle, vanishing_point, cx, cy)
new_paon(num_lines, radius, amplitude, wave_frequency, phase_rate, resolution, n_harmonics, fan_angle, vanishing_point, center_x, center_y) ==
    SetAfterOk(new_with_segments(RoseEngineConfig_new(radius, amplitude), EquivalenceBit,
                                 num_lines, 1, center_x, center_y),
               "linear_paon",
               [ num_lines |-> num_lines,
                 radius |-> radius,
                 amplitude |-> amplitude,
                 wave_frequency |-> wave_frequency,
                 phase_rate |-> phase_rate,
                 resolution |-> resolution,
                 n_harmonics |-> n_harmonics,
                 fan_angle |-> fan_angle,
                 vanishing_point |-> vanishing_point ])

-----------------------------------------------------------------------------
(* draperie.rs: DraperieConfig, as new_draperie uses it                    *)

\* f64::signum: 1.0 for +0.0 and above, -1.0 below
Signum(s) == IF s < 0 THEN -1 ELSE 1

\* f64::powf(x, y); the model draws whole exponents y
FPowf(x, y) == FPowi(x, y \div Scale)

\* the phase-shape function, the same text in DraperieConfig and in the run
PhaseShape(circular_phase, phase_exponent, t) ==
    IF circular_phase > 0
    THEN LET s == Sin(t)
             a == Abs(s)
             dome == Scale - FPowf(Scale - a, circular_phase)
         IN  dome * Signum(s)
    ELSE LET s == Sin(t)
         IN  FPowi(Abs(s), phase_exponent) * Signum(s)

\* DraperieConfig::phase_shape_fn(&self, t)
DraperieConfig_phase_shape_fn(self, t) ==
    PhaseShape(self.circular_phase, self.phase_exponent, t)

SetMax(S) == CHOOSE m \in S : \A x \in S : x <= m

\* the number of samples safe_amplitude takes of the phase shape
SafeAmplitudeSamples == 1000

\* DraperieConfig::safe_amplitude(&self)
safe_amplitude(self) ==
    LET dt_ring == TDiv(FMul(2 * PI, self.phase_oscillations), self.num_rings)
        n_sample == SafeAmplitudeSamples
        diff(k) ==
            LET t == TDiv(2 * PI * k, n_sample)
            IN  Abs(DraperieConfig_phase_shape_fn(self, t + dt_ring)
                    - DraperieConfig_phase_shape_fn(self, t))
        max_diff == SetMax({0} \cup {diff(k) : k \in 0..(n_sample - 1)})
        max_adj_dphi == FMul(self.phase_shift, max_diff)
        sin_term == Abs(Sin(TDiv(FMul(max_adj_dphi, self.wave_frequency), 2)))
        innermost_base ==
            self.base_radius - TDiv((self.num_rings - 1) * self.radius_step, 2)
        max_amp_centre == IF innermost_base > 0 THEN TDiv(innermost_base * 9, 10) ELSE 0
        max_amplitude ==
            IF sin_term > 0
            THEN Min(FDiv(self.radius_step, 2 * sin_term), max_amp_centre)
            ELSE max_amp_centre
    IN  TDiv(max_amplitude * 6, 10)

-----------------------------------------------------------------------------
(* rose_engine/lathe_run.rs: new_draperie, phase_shape_fn, segment_path    *)

\* the re_config of new_draperie, from the safe amplitude
DraperieReConfig(base_radius, amplitude, wave_frequency, wave_exponent, resolution) ==
    [RoseEngineConfig_new(base_radius, amplitude) EXCEPT
        !.rosette = Draperie(wave_frequency, wave_exponent),
        !.resolution = resolution,
        !.phase = PI \div 2 + TDiv(PI * Scale, 2 * wave_frequency)]

\* the five field writes that close new_draperie
SetRingFields(made, radius_step, phase_shift, phase_oscillations, circular_phase, phase_exponent) ==
    IF made.ok
    THEN OkOf([made.value EXCEPT !.radius_step = radius_step,
                                 !.phase_shift = phase_shift,
                                 !.phase_oscillations = phase_oscillations,
                                 !.circular_phase = circular_phase,
                                 !.phase_exponent = phase_exponent])
    ELSE made

\* RoseEngineLatheRun::new_draperie(num_rings, base_radius, radius_step,
\*     wave_frequency, phase_shift, phase_oscillations, resolution,
\*     phase_exponent, wave_exponent, circular_phase, cx, cy)
new_draperie(num_rings, base_radius, radius_step, wave_frequency, phase_shift, phase_oscillations, resolution, phase_exponent, wave_exponent, circular_phase, center_x, center_y) ==
    SetRingFields(
        new_with_segments(
            DraperieReConfig(base_radius,
                             safe_amplitude([ num_rings |-> num_rings,
                                              base_radius |-> base_radius,
                                              radius_step |-> radius_step,
                                              wave_frequency |-> wave_frequency,
                                              amplitude |-> None,
                                              phase_shift |-> phase_shift,
                                              phase_oscillations |-> phase_oscillations,
                                              resolution |-> resolution,
                                              phase_exponent |-> phase_exponent,
                                              wave_exponent |-> wave_exponent,
                                              circular_phase |-> circular_phase ]),
                             wave_frequency, wave_exponent, resolution),
            EquivalenceBit, num_rings, 1, center_x, center_y),
        radius_step, phase_shift, phase_oscillations, circular_phase, phase_exponent)

\* RoseEngineLatheRun::phase_shape_fn(&self, t)
phase_shape_fn(self, t) == PhaseShape(self.circular_phase, self.phase_exponent, t)

\* draw_points without the draw ratio: the whole cycle is drawn
DrawPoints_WholeCycle(points_per_cycle) == points_per_cycle

\* `(points_per_cycle as f64 * draw_ratio) as usize` with draw_ratio = 0.7.
\* The f64 nearest to 0.7 is 0.7 - 0.4 * 2^-53.  For c not a multiple of 10
\* the product has a fractional part of at least 0.1 and truncates to
\* floor(7c/10).  For c = 10j the exact product is 7j - j * 2^-51, which f64
\* rounds to 7j (a tie goes to 7j, the even neighbour) unless j * 2^-51 is
\* more than half the spacing of the doubles below 7j, that is unless a power
\* of two lies strictly between 7j and 8j; then the product is the double
\* below 7j and truncates to 7j - 1 (the first case is c = 90: 62, not 63).
DrawPoints(points_per_cycle) ==
    LET c == points_per_cycle
        j == c \div 10
        below == c % 10 = 0 /\ \E e \in 0..30 : 7 * j < 2^e /\ 2^e < 8 * j
    IN  IF below THEN 7 * j - 1 ELSE (7 * c) \div 10

RECURSIVE SegmentLoop(_, _, _)
\* the `for seg_idx in 0..self.segments_per_pass` loop of segment_path
SegmentLoop(self, path, seg_idx) ==
    IF seg_idx >= self.segments_per_pass THEN self
    ELSE LET total_points == Len(path)
             points_per_cycle == total_points \div self.segments_per_pass
             draw_points == DrawPoints(points_per_cycle)
             start_idx == seg_idx * points_per_cycle
             end_idx == Min(start_idx + draw_points, total_points)
             segment == SubSeq(path, start_idx + 1, end_idx)
             pushed == IF start_idx < total_points /\ end_idx > start_idx
                          /\ segment # <<>>
                       THEN [self EXCEPT !.segmented_lines = Append(@, segment)]
                       ELSE self
         IN  SegmentLoop(pushed, path, seg_idx + 1)

\* segment_path without the `segments_per_pass == 1` case: a single segment
\* is cut to its duty cycle like any other
segment_path_AlwaysCut(self, path) ==
    IF path = <<>> \/ self.segments_per_pass = 0 THEN self
    ELSE SegmentLoop(self, path, 0)

\* RoseEngineLatheRun::segment_path(&mut self, path)
segment_path(self, path) ==
    IF path = <<>> \/ self.segments_per_pass = 0 THEN self
    ELSE IF self.segments_per_pass = 1
    THEN [self EXCEPT !.segmented_lines = Append(@, path)]
    ELSE SegmentLoop(self, path, 0)

-----------------------------------------------------------------------------
(* paon.rs: paon_wave_fn, which the run's paon branch calls                *)

\* 2 * atanh(z), five terms
LnSeries(z) ==
    2 * (z + FPowi(z, 3) \div 3 + FPowi(z, 5) \div 5 + FPowi(z, 7) \div 7
         + FPowi(z, 9) \div 9)

\* f64::ln(x) for x >= 1: 2 * atanh((x - 1) / (x + 1))
Ln(x) == LnSeries(FDiv(x - Scale, x + Scale))

\* coeff * (at).sin() for the harmonic 2k + 1
PaonTerm(k, at) ==
    FMul(TDiv((IF k % 2 = 0 THEN 1 ELSE -1) * Scale, (2 * k + 1) * (2 * k + 1)),
         Sin(at))

RECURSIVE PaonSum(_, _, _)
\* the `sum` (peak = FALSE) or the `norm` (peak = TRUE) of paon_wave_fn over
\* the terms 0..k
PaonSum(theta, k, peak) ==
    (IF k = 0 THEN 0 ELSE PaonSum(theta, k - 1, peak))
    + PaonTerm(k, IF peak THEN TDiv((2 * k + 1) * PI, 2) ELSE (2 * k + 1) * theta)

\* paon_wave_fn(theta, n_harmonics)
paon_wave_fn(theta, n_harmonics) ==
    IF n_harmonics = 0 THEN Sin(theta)
    ELSE FDiv(PaonSum(theta, n_harmonics, FALSE), PaonSum(theta, n_harmonics, TRUE))

-----------------------------------------------------------------------------
(* rose_engine/lathe_run.rs: generate                                      *)

\* self.segmented_lines.push(line)
PushLine(self, line) == [self EXCEPT !.segmented_lines = Append(@, line)]

RECURSIVE PushLines(_, _, _)
\* push lines[k..] in order
PushLines(self, lines, k) ==
    IF k > Len(lines) THEN self ELSE PushLines(PushLine(self, lines[k]), lines, k + 1)

\* circle i of the diamant branch of generate: its centre sits at
\* rotation_angle = i * angle_step, circle_radius from the run's centre
DiamantBranchCircle(self, i) ==
    LET diamant_cfg == self.circular_diamant
        r == diamant_cfg.circle_radius
        res == diamant_cfg.resolution
        rotation_angle == i * TDiv(2 * PI, diamant_cfg.num_circles)
        circle_cx == self.center_x + FMul(r, Cos(rotation_angle))
        circle_cy == self.center_y + FMul(r, Sin(rotation_angle))
    IN  [ k \in 1..(res + 1) |->
            Point2D(circle_cx + FMul(r, Cos(TDiv(2 * PI * (k - 1), res))),
                    circle_cy + FMul(r, Sin(TDiv(2 * PI * (k - 1), res)))) ]

\* the diamant branch with every circle drawn around the first centre
DiamantBranchLines_OneCentre(self) ==
    [ k \in 1..self.circular_diamant.num_circles |-> DiamantBranchCircle(self, 0) ]

\* the circles the diamant branch of generate pushes
DiamantBranchLines(self) ==
    [ k \in 1..self.circular_diamant.num_circles |-> DiamantBranchCircle(self, k - 1) ]

RECURSIVE ClusterRotations_NoRemainder(_, _, _)
\* the clustered rotations with n / nc curves in every cluster: the n % nc
\* curves left over are given to no cluster
ClusterRotations_NoRemainder(he_cfg, spread, k) ==
    LET nc == he_cfg.num_clusters
        count == he_cfg.num_curves \div nc
        cluster_center == k * TDiv(2 * PI, nc)
    IN  IF k >= nc THEN <<>>
        ELSE [ c \in 1..count |->
                 IF count > 1
                 THEN cluster_center
                      + TDiv(spread * (2 * (c - 1) - (count - 1)), 2 * (count - 1))
                 ELSE cluster_center ]
             \o ClusterRotations_NoRemainder(he_cfg, spread, k + 1)

RECURSIVE ClusterRotations(_, _, _)
\* the rotation angles of clusters k.. of the huit-eight branch
ClusterRotations(he_cfg, spread, k) ==
    LET n == he_cfg.num_curves
        nc == he_cfg.num_clusters
        curves_per_cluster == n \div nc
        remainder == n % nc
        sector == TDiv(2 * PI, nc)
        cluster_center == k * sector
        count == curves_per_cluster + (IF k < remainder THEN 1 ELSE 0)
        \* t * spread with t = c / (count - 1) - 0.5
        rot(c) == IF count > 1
                  THEN cluster_center
                       + TDiv(spread * (2 * c - (count - 1)), 2 * (count - 1))
                  ELSE cluster_center
    IN  IF k >= nc THEN <<>>
        ELSE [ c \in 1..count |-> rot(c - 1) ]
             \o ClusterRotations(he_cfg, spread, k + 1)

\* the `rotations` vector of a huit-eight run that ignores the clusters
HuitEightRotations_Uniform(he_cfg) ==
    [ k \in 1..he_cfg.num_curves |-> (k - 1) * TDiv(2 * PI, he_cfg.num_curves) ]

\* the `rotations` vector of the huit-eight branch
HuitEightRotations(he_cfg) ==
    LET n == he_cfg.num_curves
    IN  IF he_cfg.num_clusters > 0 /\ he_cfg.num_clusters < n
        THEN LET sector == TDiv(2 * PI, he_cfg.num_clusters)
                 spread == IF he_cfg.cluster_spread > 0 THEN he_cfg.cluster_spread
                           ELSE TDiv(sector, 2)
             IN  ClusterRotations(he_cfg, spread, 0)
        ELSE LET angle_step == TDiv(2 * PI, n)
             IN  [ k \in 1..n |-> (k - 1) * angle_step ]

\* the lemniscates the huit-eight branch of generate pushes
HuitEightBranchLines(self) ==
    LET he_cfg == self.circular_huiteight
        a == he_cfg.scale
        res == he_cfg.resolution
        rotations == HuitEightRotations(he_cfg)
        curve(rot) ==
            LET cos_rot == Cos(rot)
                sin_rot == Sin(rot)
            IN  [ k \in 1..(res + 1) |->
                    LET t == TDiv(2 * PI * (k - 1), res)
                        sin_t == Sin(t)
                        cos_t == Cos(t)
                        denom == Scale + FMul(sin_t, sin_t)
                        lx == FDiv(FMul(a, cos_t), denom)
                        ly == FDiv(FMul(FMul(a, sin_t), cos_t), denom)
                    IN  Point2D(self.center_x + FMul(lx, cos_rot) - FMul(ly, sin_rot),
                                self.center_y + FMul(lx, sin_rot) + FMul(ly, cos_rot)) ]
    IN  [ k \in 1..Len(rotations) |-> curve(rotations[k]) ]

\* points per petal of a flinque ring
FlinquePointsPerPetal == 80

\* the chevron ring of index ring_idx of the flinque branch, and whether the
\* branch skips it (`continue`)
FlinqueRing(self, ring_idx) ==
    LET flinque_cfg == self.concentric_flinque
        outer_r == self.base_config.base_radius
        inner_r == FMul(outer_r, flinque_cfg.inner_radius_ratio)
        wave_amplitude == flinque_cfg.wave_amplitude
        min_radius == TDiv(wave_amplitude, 10)
        num_petals == flinque_cfg.num_petals
        wave_frequency == flinque_cfg.wave_frequency
        \* (outer_r - inner_r) * t with t = (ring_idx + 0.5) / num_waves
        base_r == inner_r + TDiv((outer_r - inner_r) * (2 * ring_idx + 1),
                                 2 * flinque_cfg.num_waves)
        points_per_ring == num_petals * FlinquePointsPerPetal
        point(i) ==
            LET angle == TDiv(2 * PI * i, points_per_ring)
                petal_phase == TDiv(2 * PI * i * num_petals, 2 * points_per_ring)
                wave == Abs(Sin(petal_phase))
                chevron == FMul(wave_amplitude, wave)
                ripple == FMul(TDiv(wave_amplitude, 20),
                               Sin(FMul(petal_phase, wave_frequency)))
                r_mod == base_r + chevron + ripple
            IN  Point2D(FMul(r_mod, Cos(angle)) + self.center_x,
                        FMul(r_mod, Sin(angle)) + self.center_y)
    IN  [ skip |-> base_r < min_radius,
          line |-> [ k \in 1..(points_per_ring + 1) |-> point(k - 1) ] ]

RECURSIVE FlinqueLoop_PushAll(_, _)
\* the loop of a flinque branch without the `continue`
FlinqueLoop_PushAll(self, ring_idx) ==
    IF ring_idx >= self.concentric_flinque.num_waves THEN self
    ELSE FlinqueLoop_PushAll(PushLine(self, FlinqueRing(self, ring_idx).line),
                             ring_idx + 1)

RECURSIVE FlinqueLoop(_, _)
\* the `for ring_idx in 0..num_waves` loop of the flinque branch
FlinqueLoop(self, ring_idx) ==
    IF ring_idx >= self.concentric_flinque.num_waves THEN self
    ELSE LET ring == FlinqueRing(self, ring_idx)
         IN  FlinqueLoop(IF ring.skip THEN self ELSE PushLine(self, ring.line),
                         ring_idx + 1)

\* y_vp, y_crit and angle_max of the paon branch
PaonYVp(paon_cfg) ==
    paon_cfg.radius + FMul(paon_cfg.vanishing_point, 2 * paon_cfg.radius)
PaonYCrit(r, y_vp) == Min(FDiv(FMul(r, r), y_vp), r)
PaonAngleMaxFrom(r, y_vp, y_crit) ==
    Atan2(FSqrt(FMul(r, r) - FMul(y_crit, y_crit)), y_vp - y_crit)
PaonAngleMax(paon_cfg) ==
    PaonAngleMaxFrom(paon_cfg.radius, PaonYVp(paon_cfg),
                     PaonYCrit(paon_cfg.radius, PaonYVp(paon_cfg)))

\* -angle_max + 2 * angle_max * frac, with frac = i / (n - 1), or 0.5 for n = 1
PaonAngle(n, i, angle_max) ==
    IF n > 1 THEN -angle_max + TDiv(2 * angle_max * i, n - 1)
    ELSE -angle_max + angle_max

\* PI * phase_rate * frac
PaonSweep(paon_cfg, i) ==
    IF paon_cfg.num_lines > 1
    THEN TDiv(FMul(PI, paon_cfg.phase_rate) * i, paon_cfg.num_lines - 1)
    ELSE TDiv(FMul(PI, paon_cfg.phase_rate), 2)

PaonLinePhase(paon_cfg, i) ==
    -FMul(FMul(2 * PI, paon_cfg.fan_angle), Abs(Sin(PaonSweep(paon_cfg, i))))

\* theta at height y: 2 PI wave_frequency ln(dist / dist_near) + line_phase
PaonTheta(paon_cfg, y_vp, y, line_phase) ==
    FMul(FMul(2 * PI, paon_cfg.wave_frequency),
         Ln(FDiv(y_vp - y, y_vp - paon_cfg.radius)))
    + line_phase

\* the sample (x, y) of a paon branch without the clip to the circle
PaonPoint_NoClip(self, x, y) ==
    [ inside |-> TRUE,
      point |-> Point2D(self.center_x + x, self.center_y + y) ]

\* the sample (x, y), and whether it is inside the boundary circle
PaonPoint(self, x, y) ==
    [ inside |-> x * x + y * y <= self.linear_paon.radius * self.linear_paon.radius,
      point |-> Point2D(self.center_x + x, self.center_y + y) ]

\* the sample at height y: x = x_base + offset
PaonSample(self, y, y_vp, tan_a, line_phase) ==
    PaonPoint(self,
              FMul(y_vp - y, tan_a)
              + FMul(self.linear_paon.amplitude,
                     paon_wave_fn(PaonTheta(self.linear_paon, y_vp, y, line_phase),
                                  self.linear_paon.n_harmonics)),
              y)

\* the samples for j in 0..=resolution, y = -r + diameter * j / resolution
PaonSamples(self, y_vp, tan_a, line_phase) ==
    [ k \in 1..(self.linear_paon.resolution + 1) |->
        PaonSample(self,
                   -self.linear_paon.radius
                   + TDiv(2 * self.linear_paon.radius * (k - 1),
                          self.linear_paon.resolution),
                   y_vp, tan_a, line_phase) ]

\* the points of the samples that are inside, in order
KeptPoints(samples) ==
    LET kept == SelectSeq(samples, LAMBDA s : s.inside)
    IN  [ k \in 1..Len(kept) |-> kept[k].point ]

\* fan line i of the paon branch: the samples inside the boundary circle
PaonLine(self, i) ==
    KeptPoints(PaonSamples(self, PaonYVp(self.linear_paon),
                           Tan(PaonAngle(self.linear_paon.num_lines, i,
                                         PaonAngleMax(self.linear_paon))),
                           PaonLinePhase(self.linear_paon, i)))

\* `if line_points.len() >= 2 { self.segmented_lines.push(line_points); }`
PushPaonLine(self, line_points) ==
    IF Len(line_points) >= 2 THEN PushLine(self, line_points) ELSE self

RECURSIVE PaonLoop(_, _)
\* the `for i in 0..n` loop of the paon branch
PaonLoop(self, i) ==
    IF i >= self.linear_paon.num_lines THEN self
    ELSE PaonLoop(PushPaonLine(self, PaonLine(self, i)), i + 1)

\* the per-pass configuration with the ring mode's phase term added in the
\* phase-rotation mode as well
PassConfig_ShiftedRotation(self, i) ==
    LET rotation == i * TDiv(2 * PI, self.num_passes)
        phase_t == TDiv(FMul(2 * PI, self.phase_oscillations) * i, self.num_passes)
    IN  IF self.radius_step # 0
        THEN [self.base_config EXCEPT
                 !.base_radius = @ + TDiv((2 * i - (self.num_passes - 1))
                                          * self.radius_step, 2),
                 !.phase = @ + FMul(self.phase_shift, phase_shape_fn(self, phase_t))]
        ELSE [self.base_config EXCEPT
                 !.phase = @ + rotation
                           + FMul(self.phase_shift, phase_shape_fn(self, phase_t))]

\* the per-pass configuration with the rings counted outwards from the
\* configured radius instead of centred on it
PassConfig_Uncentred(self, i) ==
    LET phase_t == TDiv(FMul(2 * PI, self.phase_oscillations) * i, self.num_passes)
    IN  IF self.radius_step # 0
        THEN [self.base_config EXCEPT
                 !.base_radius = @ + i * self.radius_step,
                 !.phase = @ + FMul(self.phase_shift, phase_shape_fn(self, phase_t))]
        ELSE [self.base_config EXCEPT
                 !.phase = @ + i * TDiv(2 * PI, self.num_passes)]

\* the configuration of pass i of the generic loop
PassConfig(self, i) ==
    IF self.radius_step # 0
    THEN LET \* offset * radius_step, offset = i - (num_passes - 1) / 2
             offset_step == TDiv((2 * i - (self.num_passes - 1)) * self.radius_step, 2)
             phase_t == TDiv(FMul(2 * PI, self.phase_oscillations) * i, self.num_passes)
         IN  [self.base_config EXCEPT
                 !.base_radius = self.base_config.base_radius + offset_step,
                 !.phase = self.base_config.phase
                           + FMul(self.phase_shift, phase_shape_fn(self, phase_t))]
    ELSE LET rotation_step == TDiv(2 * PI, self.num_passes)
             rotation == i * rotation_step
         IN  [self.base_config EXCEPT !.phase = self.base_config.phase + rotation]

\* the body of `if let Ok(mut pass) = ...`, from the generated pass on:
\* segment lines[0] of its rendered output, then push the pass
AcceptedPass(self, pass) ==
    LET rendered == pass.rendered
        segmented ==
            IF rendered.lines # <<>> /\ rendered.lines[1] # <<>>
            THEN segment_path(self, rendered.lines[1])
            ELSE self
    IN  [segmented EXCEPT !.passes = Append(@, pass)]

\* the generic loop with a rejected pass kept: the Err takes a place in passes
PassResult_KeepRejected(self, made) ==
    IF ~made.ok THEN [self EXCEPT !.passes = Append(@, None)]
    ELSE AcceptedPass(self, RoseEngineLathe_generate(made.value))

\* `if let Ok(mut pass) = RoseEngineLathe::new_with_center(...)`: an Err is
\* dropped, an Ok is generated and accepted
PassResult(self, made) ==
    IF ~made.ok THEN self
    ELSE AcceptedPass(self, RoseEngineLathe_generate(made.value))

\* one iteration of the generic loop with the per-pass phase and radius
\* written to base_config itself instead of a clone of it
GenericPass_SharedConfig(self, i) ==
    PassResult([self EXCEPT !.base_config = PassConfig(self, i)],
               RoseEngineLathe_new_with_center(PassConfig(self, i), self.cutting_bit,
                                               self.center_x, self.center_y))

\* one iteration of the generic loop of generate
GenericPass(self, i) ==
    PassResult(self, RoseEngineLathe_new_with_center(PassConfig(self, i), self.cutting_bit,
                                                     self.center_x, self.center_y))

RECURSIVE GenericLoop(_, _)
\* the `for i in 0..self.num_passes` loop of generate
GenericLoop(self, i) ==
    IF i >= self.num_passes THEN self
    ELSE GenericLoop(GenericPass(self, i), i + 1)

\* generate without its two clear() calls
clear_outputs_Keep(self) == self

\* `self.passes.clear(); self.segmented_lines.clear();`
clear_outputs(self) == [self EXCEPT !.passes = <<>>, !.segmented_lines = <<>>]

\* generate with the ring mode tested first: a non-zero radius_step sends
\* every instance down the generic path
GenerationBranch_RingFirst(self) ==
    IF self.radius_step # 0 THEN "generic"
    ELSE IF self.circular_diamant # None THEN "diamant"
    ELSE IF self.circular_huiteight # None THEN "huiteight"
    ELSE IF self.concentric_flinque # None THEN "flinque"
    ELSE IF self.linear_paon # None THEN "paon"
    ELSE "generic"

\* which of generate's paths an instance takes, in the order generate tests
GenerationBranch(self) ==
    IF self.circular_diamant # None THEN "diamant"
    ELSE IF self.circular_huiteight # None THEN "huiteight"
    ELSE IF self.concentric_flinque # None THEN "flinque"
    ELSE IF self.linear_paon # None THEN "paon"
    ELSE "generic"

\* the branch of generate an instance takes, on the cleared outputs
GenerateBranch(self, b) ==
    CASE b = "diamant" -> PushLines(self, DiamantBranchLines(self), 1)
      [] b = "huiteight" -> PushLines(self, HuitEightBranchLines(self), 1)
      [] b = "flinque" -> FlinqueLoop(self, 0)
      [] b = "paon" -> PaonLoop(self, 0)
      [] b = "generic" -> GenericLoop(self, 0)

\* RoseEngineLatheRun::generate(&mut self)
RoseEngineLatheRun_generate(self) ==
    [GenerateBranch(clear_outputs(self), GenerationBranch(self)) EXCEPT
        !.generated = TRUE]

-----------------------------------------------------------------------------
(* The inputs the model draws.                                             *)

MaxPasses == 3
MaxSegments == 3
\* the longest path handed to segment_path on its own
MaxSegPoints == 181

\* one value below the floor of 10, and two that divide Turn
Resolutions == {MinResolution - 1, MinResolution, 12}

Centers == {<<0, 0>>, <<F(1), -500>>}

LatheRosettes == {Sinusoidal(F(1)), MultiLobe(3), Elliptical(F(7), 0)}

\* `None`, or the arguments of with_secondary_rosette
Secondaries == {None,
                [rosette |-> Sinusoidal(F(2)), amplitude |-> 500],
                [rosette |-> Sinusoidal(F(2)), amplitude |-> -500]}

\* `None`, or the arguments of with_depth_modulation
DepthModulations == {None, [amplitude |-> 500, frequency |-> F(2)],
                     [amplitude |-> F(3), frequency |-> F(2)]}

\* a cutting bit and the centre it is used at
LatheSetups == { [bit |-> v_shaped(60, 500), center |-> <<0, 0>>],
                 [bit |-> flat(F(1), 0), center |-> <<F(1), -500>>] }

\* a configuration as a caller builds it: RoseEngineConfig::new, then field
\* writes and the with_* calls
BuildConfig(base_radius, amplitude, rosette, resolution, secondary, depth) ==
    LET c0 == [RoseEngineConfig_new(base_radius, amplitude) EXCEPT
                  !.rosette = rosette, !.resolution = resolution]
        c1 == IF secondary = None THEN c0
              ELSE with_secondary_rosette(c0, secondary.rosette, secondary.amplitude)
    IN  IF depth = None THEN c1
        ELSE with_depth_modulation(c1, depth.amplitude, depth.frequency)

\* every rosette, secondary rosette and depth modulation on one base circle,
\* and every base radius, amplitude and resolution around the limits the
\* constructor tests
LatheConfigs ==
    { BuildConfig(F(2), F(1), ros, res, sec, dm) :
        ros \in LatheRosettes, res \in Resolutions \ {MinResolution - 1},
        sec \in Secondaries, dm \in DepthModulations }
    \cup
    { BuildConfig(br, amp, Sinusoidal(F(1)), res, None, None) :
        br \in {-F(1), 0, F(2)}, amp \in {-F(1), 0, F(1)}, res \in Resolutions }

RunConfigs ==
    { BuildConfig(br, amp, MultiLobe(3), res, None, None) :
        br \in {0, F(2)}, amp \in {-F(1), F(1)}, res \in Resolutions }

\* values written to the public fields radius_step, phase_shift,
\* phase_oscillations, circular_phase, phase_exponent of a run
RingFieldWrites ==
    { [radius_step |-> F(3), phase_shift |-> 0, phase_oscillations |-> F(1),
       circular_phase |-> 0, phase_exponent |-> 1],
      [radius_step |-> -F(1), phase_shift |-> 60, phase_oscillations |-> F(1),
       circular_phase |-> F(2), phase_exponent |-> 3] }

-----------------------------------------------------------------------------
(* The state machine: one instance, from construction on.                  *)

\* a behaviour makes one constructor call, first
NoInstance == call.op = "none"

Unit == [ok |-> TRUE, value |-> "()"]

\* what has been called on the instance so far: ctor = the constructor call
\* that made it, called = generate() was called, written = a ring field was
\* written, dirty = a public field was written since the last generate(),
\* again = the last two calls were both generate(), over = the last call
\* was a generate() after a write that itself came after a generate()
FreshHist == [ctor |-> [op |-> "none"], called |-> FALSE, written |-> FALSE,
              dirty |-> FALSE, again |-> FALSE, over |-> FALSE]

\* the history of an instance just made by the constructor call c
MadeBy(c) == [FreshHist EXCEPT !.ctor = c]

Init ==
    /\ lathe = None
    /\ run = None
    /\ call = [op |-> "none"]
    /\ result = Unit
    /\ branch = "none"
    /\ hist = FreshHist
    /\ segIn = None
    /\ segOut = None

\* what a constructor call leaves behind: the instance on Ok, nothing on Err
Constructed(res) == IF res.ok THEN res.value ELSE None
\* what the caller of a constructor gets: Ok (the instance is in lathe or run)
\* or the error
Returned(res) == IF res.ok THEN [ok |-> TRUE, value |-> "instance"] ELSE res

\* RoseEngineLathe::new and RoseEngineLathe::new_with_center
NewLathe ==
    /\ NoInstance
    /\ \E config \in LatheConfigs, setup \in LatheSetups :
         LET res == IF setup.center = <<0, 0>>
                    THEN RoseEngineLathe_new(config, setup.bit)
                    ELSE RoseEngineLathe_new_with_center(config, setup.bit,
                                                         setup.center[1], setup.center[2])
         IN  /\ lathe' = Constructed(res)
             /\ result' = Returned(res)
             /\ call' = [op |-> IF setup.center = <<0, 0>> THEN "RoseEngineLathe::new"
                                ELSE "RoseEngineLathe::new_with_center",
                         config |-> config]
    /\ hist' = MadeBy(call')
    /\ UNCHANGED <<run, branch, segIn, segOut>>

\* lathe.generate()
LatheGenerate ==
    /\ lathe # None
    /\ lathe' = RoseEngineLathe_generate(lathe)
    /\ call' = [op |-> "RoseEngineLathe::generate"]
    /\ result' = Unit
    /\ hist' = [hist EXCEPT !.called = TRUE, !.dirty = FALSE,
                            !.again = (call.op = "RoseEngineLathe::generate"),
                            !.over = (hist.called /\ hist.dirty)]
    /\ UNCHANGED <<run, branch, segIn, segOut>>

\* lathe.to_svg(filename): the save succeeds or fails
LatheToSvg ==
    /\ lathe # None
    /\ call' = [op |-> "RoseEngineLathe::to_svg"]
    /\ \/ /\ ExportRefused(lathe)
          /\ result' = Err(NotGenerated)
       \/ /\ ~ExportRefused(lathe)
          /\ \/ result' = OkOf([paths |-> SvgPaths(lathe.rendered.lines)])
             \/ result' = Err(SaveFailed)
    /\ hist' = [hist EXCEPT !.again = FALSE, !.over = FALSE]
    /\ UNCHANGED <<lathe, run, branch, segIn, segOut>>

\* ExportConfig::default().depth = 0.1
ExportDepth == 100

\* lathe.to_stl(filename, config): the write succeeds or fails
LatheToStl ==
    /\ lathe # None
    /\ call' = [op |-> "RoseEngineLathe::to_stl"]
    /\ \/ /\ ExportRefused(lathe)
          /\ result' = Err(NotGenerated)
       \/ /\ ~ExportRefused(lathe)
          /\ \/ result' = OkOf([triangles |-> StlTriangles(lathe, ExportDepth)])
             \/ result' = Err(SaveFailed)
    /\ hist' = [hist EXCEPT !.again = FALSE, !.over = FALSE]
    /\ UNCHANGED <<lathe, run, branch, segIn, segOut>>

\* lathe.to_step(filename, config)
LatheToStep ==
    /\ lathe # None
    /\ call' = [op |-> "RoseEngineLathe::to_step"]
    /\ result' = IF ExportRefused(lathe) THEN Err(NotGenerated)
                 ELSE Err(StepUnimplemented)
    /\ hist' = [hist EXCEPT !.again = FALSE, !.over = FALSE]
    /\ UNCHANGED <<lathe, run, branch, segIn, segOut>>

\* RoseEngineLatheRun::new
NewRun ==
    /\ NoInstance
    /\ \E config \in RunConfigs, num_passes \in 0..MaxPasses :
         LET res == RoseEngineLatheRun_new(config, EquivalenceBit, num_passes)
         IN  /\ run' = Constructed(res)
             /\ result' = Returned(res)
             /\ call' = [op |-> "RoseEngineLatheRun::new", config |-> config,
                         num_passes |-> num_passes,
                         segments_per_pass |-> DefaultSegments]
    /\ hist' = MadeBy(call')
    /\ UNCHANGED <<lathe, branch, segIn, segOut>>

\* RoseEngineLatheRun::new_with_center
NewRunWithCenter ==
    /\ NoInstance
    /\ \E config \in RunConfigs, num_passes \in 0..MaxPasses :
         LET res == RoseEngineLatheRun_new_with_center(config, EquivalenceBit,
                                                       num_passes, F(1), -500)
         IN  /\ run' = Constructed(res)
             /\ result' = Returned(res)
             /\ call' = [op |-> "RoseEngineLatheRun::new_with_center",
                         config |-> config, num_passes |-> num_passes,
                         segments_per_pass |-> DefaultSegments]
    /\ hist' = MadeBy(call')
    /\ UNCHANGED <<lathe, branch, segIn, segOut>>

\* RoseEngineLatheRun::new_with_segments
NewRunWithSegments ==
    /\ NoInstance
    /\ \E config \in RunConfigs, num_passes \in 0..MaxPasses,
          segments_per_pass \in 0..MaxSegments :
         LET res == new_with_segments(config, EquivalenceBit, num_passes,
                                      segments_per_pass, 0, 0)
         IN  /\ run' = Constructed(res)
             /\ result' = Returned(res)
             /\ call' = [op |-> "RoseEngineLatheRun::new_with_segments",
                         config |-> config, num_passes |-> num_passes,
                         segments_per_pass |-> segments_per_pass]
    /\ hist' = MadeBy(call')
    /\ UNCHANGED <<lathe, branch, segIn, segOut>>

\* run.generate()
RunGenerate ==
    /\ run # None
    /\ run' = RoseEngineLatheRun_generate(run)
    /\ branch' = GenerationBranch(run)
    /\ call' = [op |-> "RoseEngineLatheRun::generate"]
    /\ result' = Unit
    /\ hist' = [hist EXCEPT !.called = TRUE, !.dirty = FALSE,
                            !.again = (call.op = "RoseEngineLatheRun::generate"),
                            !.over = (hist.called /\ hist.dirty)]
    /\ UNCHANGED <<lathe, segIn, segOut>>

\* run.to_svg(filename): the save succeeds or fails
RunToSvg ==
    /\ run # None
    /\ call' = [op |-> "RoseEngineLatheRun::to_svg"]
    /\ \/ /\ ExportRefused(run)
          /\ result' = Err(NotGenerated)
       \/ /\ ~ExportRefused(run)
          /\ \/ result' = OkOf([paths |-> SvgPaths(run.segmented_lines)])
             \/ result' = Err(SaveFailed)
    /\ hist' = [hist EXCEPT !.again = FALSE, !.over = FALSE]
    /\ UNCHANGED <<lathe, run, branch, segIn, segOut>>

\* writes to the public fields of a run that select and shape the
\* concentric-ring mode
RunWriteRingFields ==
    /\ run # None
    /\ \E w \in RingFieldWrites :
         /\ run' = [run EXCEPT !.radius_step = w.radius_step,
                               !.phase_shift = w.phase_shift,
                               !.phase_oscillations = w.phase_oscillations,
                               !.circular_phase = w.circular_phase,
                               !.phase_exponent = w.phase_exponent]
         /\ call' = [op |-> "write ring fields", fields |-> w]
    /\ result' = Unit
    /\ hist' = [hist EXCEPT !.written = TRUE, !.dirty = TRUE, !.again = FALSE,
                            !.over = FALSE]
    /\ UNCHANGED <<lathe, branch, segIn, segOut>>

\* RoseEngineLatheRun::new_diamant
NewDiamant ==
    /\ NoInstance
    /\ \E num_circles \in 0..MaxPasses, circle_radius \in {0, F(2)},
          resolution \in Resolutions, c \in Centers :
         LET res == new_diamant(num_circles, circle_radius, resolution, c[1], c[2])
         IN  /\ run' = Constructed(res)
             /\ result' = Returned(res)
             /\ call' = [op |-> "RoseEngineLatheRun::new_diamant",
                         num_circles |-> num_circles,
                         circle_radius |-> circle_radius,
                         resolution |-> resolution,
                         center_x |-> c[1], center_y |-> c[2]]
    /\ hist' = MadeBy(call')
    /\ UNCHANGED <<lathe, branch, segIn, segOut>>

\* RoseEngineLatheRun::new_limacon
NewLimacon ==
    /\ NoInstance
    /\ \E num_curves \in 0..MaxPasses, resolution \in Resolutions, c \in Centers,
          amplitude \in {F(1), F(3), -F(1)} :
         LET res == new_limacon(num_curves, F(2), amplitude, resolution, c[1], c[2])
         IN  /\ run' = Constructed(res)
             /\ result' = Returned(res)
             /\ call' = [op |-> "RoseEngineLatheRun::new_limacon",
                         num_curves |-> num_curves, base_radius |-> F(2),
                         amplitude |-> amplitude, resolution |-> resolution,
                         center_x |-> c[1], center_y |-> c[2]]
    /\ hist' = MadeBy(call')
    /\ UNCHANGED <<lathe, branch, segIn, segOut>>

\* RoseEngineLatheRun::new_flinque
NewFlinque ==
    /\ NoInstance
    /\ \E num_petals \in {1, 3}, num_waves \in 0..MaxPasses,
          wave_amplitude \in {500, F(10)}, wave_frequency \in {F(2), 2500},
          inner_radius_ratio \in {0, 500} :
         LET res == new_flinque(F(2), num_petals, num_waves, wave_amplitude,
                                wave_frequency, inner_radius_ratio, 0, 0)
         IN  /\ run' = Constructed(res)
             /\ result' = Returned(res)
             /\ call' = [op |-> "RoseEngineLatheRun::new_flinque",
                         radius |-> F(2),
                         num_petals |-> num_petals, num_waves |-> num_waves,
                         wave_amplitude |-> wave_amplitude,
                         wave_frequency |-> wave_frequency,
                         inner_radius_ratio |-> inner_radius_ratio,
                         center_x |-> 0, center_y |-> 0]
    /\ hist' = MadeBy(call')
    /\ UNCHANGED <<lathe, branch, segIn, segOut>>

\* RoseEngineLatheRun::new_huiteight
NewHuitEight ==
    /\ NoInstance
    /\ \E num_curves \in 0..MaxPasses, resolution \in Resolutions,
          num_clusters \in {0, 2}, cluster_spread \in {0, 40} :
         LET res == new_huiteight(num_curves, F(2), resolution, 0, 0,
                                  num_clusters, cluster_spread)
         IN  /\ run' = Constructed(res)
             /\ result' = Returned(res)
             /\ call' = [op |-> "RoseEngineLatheRun::new_huiteight",
                         num_curves |-> num_curves, scale |-> F(2),
                         resolution |-> resolution,
                         center_x |-> 0, center_y |-> 0,
                         num_clusters |-> num_clusters,
                         cluster_spread |-> cluster_spread]
    /\ hist' = MadeBy(call')
    /\ UNCHANGED <<lathe, branch, segIn, segOut>>

\* RoseEngineLatheRun::new_paon
NewPaon ==
    /\ NoInstance
    /\ \E num_lines \in 0..MaxPasses, resolution \in Resolutions,
          n_harmonics \in {0, 2}, amplitude \in {200, F(3)} :
         LET res == new_paon(num_lines, F(2), amplitude, F(2), F(1), resolution,
                             n_harmonics, 500, 500, 0, 0)
         IN  /\ run' = Constructed(res)
             /\ result' = Returned(res)
             /\ call' = [op |-> "RoseEngineLatheRun::new_paon",
                         num_lines |-> num_lines, radius |-> F(2),
                         amplitude |-> amplitude, wave_frequency |-> F(2),
                         phase_rate |-> F(1), resolution |-> resolution,
                         n_harmonics |-> n_harmonics, fan_angle |-> 500,
                         vanishing_point |-> 500, center_x |-> 0, center_y |-> 0]
    /\ hist' = MadeBy(call')
    /\ UNCHANGED <<lathe, branch, segIn, segOut>>

\* the wave exponent and the phase envelope given to new_draperie:
\* phase_shift is 30 degrees or 127.5 degrees
DraperieShapes ==
    { [wave_exponent |-> 2, phase_shift |-> 60, phase_oscillations |-> F(1)],
      [wave_exponent |-> 0, phase_shift |-> 60, phase_oscillations |-> F(1)],
      [wave_exponent |-> 1, phase_shift |-> 255, phase_oscillations |-> 500] }

\* RoseEngineLatheRun::new_draperie
NewDraperie ==
    /\ NoInstance
    /\ \E num_rings \in 0..MaxPasses, resolution \in Resolutions,
          radius_step \in {500, F(3)}, circular_phase \in {0, F(2)},
          shape \in DraperieShapes :
         LET res == new_draperie(num_rings, F(2), radius_step, F(2), shape.phase_shift,
                                 shape.phase_oscillations, resolution, 1,
                                 shape.wave_exponent, circular_phase, 0, 0)
         IN  /\ run' = Constructed(res)
             /\ result' = Returned(res)
             /\ call' = [op |-> "RoseEngineLatheRun::new_draperie",
                         num_rings |-> num_rings, base_radius |-> F(2),
                         radius_step |-> radius_step, wave_frequency |-> F(2),
                         phase_shift |-> shape.phase_shift,
                         phase_oscillations |-> shape.phase_oscillations,
                         resolution |-> resolution, phase_exponent |-> 1,
                         wave_exponent |-> shape.wave_exponent,
                         circular_phase |-> circular_phase,
                         center_x |-> 0, center_y |-> 0]
    /\ hist' = MadeBy(call')
    /\ UNCHANGED <<lathe, branch, segIn, segOut>>

Next ==
    \/ NewLathe
    \/ LatheGenerate
    \/ LatheToSvg
    \/ LatheToStl
    \/ LatheToStep
    \/ NewRun
    \/ NewRunWithCenter
    \/ NewRunWithSegments
    \/ NewDiamant
    \/ NewLimacon
    \/ NewFlinque
    \/ NewHuitEight
    \/ NewPaon
    \/ NewDraperie
    \/ RunWriteRingFields
    \/ RunGenerate
    \/ RunToSvg

Spec == Init /\ [][Next]_vars

-----------------------------------------------------------------------------
(* diamant.rs: DiamantLayer, the reference of the run's diamant mode       *)

\* DiamantLayer::new_with_center(config, center_x, center_y)
DiamantLayer_new_with_center(config, center_x, center_y) ==
    IF config.circle_radius <= 0 THEN Err(InvalidParameter)
    ELSE IF config.num_circles = 0 THEN Err(InvalidParameter)
    ELSE IF config.resolution < MinResolution THEN Err(InvalidParameter)
    ELSE OkOf([ kind |-> "DiamantLayer",
                config |-> config,
                center_x |-> center_x,
                center_y |-> center_y,
                circles |-> <<>> ])

\* the points of one circle of DiamantLayer::generate, around its centre
DiamantCircle(config, circle_center_x, circle_center_y) ==
    [ k \in 1..(config.resolution + 1) |->
        Point2D(circle_center_x
                + FMul(config.circle_radius, Cos(TDiv(2 * PI * (k - 1), config.resolution))),
                circle_center_y
                + FMul(config.circle_radius, Sin(TDiv(2 * PI * (k - 1), config.resolution)))) ]

\* DiamantLayer::generate(&mut self)
DiamantLayer_generate(self) ==
    [self EXCEPT !.circles =
        [ k \in 1..self.config.num_circles |->
            DiamantCircle(self.config,
                          self.center_x
                          + FMul(self.config.circle_radius,
                                 Cos((k - 1) * TDiv(2 * PI, self.config.num_circles))),
                          self.center_y
                          + FMul(self.config.circle_radius,
                                 Sin((k - 1) * TDiv(2 * PI, self.config.num_circles)))) ]]

-----------------------------------------------------------------------------
(* segment_path on its own: a run with segments_per_pass = k is handed a   *)
(* path of T points                                                        *)

MaxSegK == 4

\* a path of T distinct points; point i (0-based) has x = i
IndexPath(T) == [ i \in 1..T |-> Point2D(i - 1, 0) ]

\* a run whose segments_per_pass is k, as new_with_segments builds it
SegRun(k) ==
    new_with_segments(RoseEngineConfig_new(F(1), 0), EquivalenceBit, 1, k, 0, 0).value

SegInit ==
    /\ lathe = None
    /\ run = None
    /\ call = [op |-> "none"]
    /\ result = Unit
    /\ branch = "none"
    /\ hist = FreshHist
    /\ \E T \in 0..MaxSegPoints, k \in 1..MaxSegK :
         segIn = [self |-> SegRun(k), path |-> IndexPath(T)]
    /\ segOut = None

\* self.segment_path(path), on a run that holds no lines yet
SegmentPath ==
    /\ segOut = None
    /\ segOut' = [kind |-> "Lines",
                  lines |-> segment_path(segIn.self, segIn.path).segmented_lines]
    /\ call' = [op |-> "RoseEngineLatheRun::segment_path"]
    /\ UNCHANGED <<lathe, run, result, branch, hist, segIn>>

SegNext == SegmentPath

SegSpec == SegInit /\ [][SegNext]_vars

-----------------------------------------------------------------------------
(* Properties of the run's constructors, of export and of generate          *)

RunConstructors ==
    {"RoseEngineLatheRun::new", "RoseEngineLatheRun::new_with_center",
     "RoseEngineLatheRun::new_with_segments"}

ExportCalls ==
    {"RoseEngineLathe::to_svg", "RoseEngineLathe::to_stl", "RoseEngineLathe::to_step",
     "RoseEngineLatheRun::to_svg"}

\* the instance a behaviour follows
Instance == IF lathe # None THEN lathe ELSE run

\* C1: new, new_with_center and new_with_segments return InvalidParameter
\* when num_passes is 0, when segments_per_pass is 0 or when
\* config.base_radius <= 0; for every other input they return a run that is
\* not generated and whose passes() and lines() are empty.
C1_RunConstruction ==
    call.op \in RunConstructors =>
        IF call.num_passes = 0 \/ call.segments_per_pass = 0
              \/ call.config.base_radius <= 0
        THEN result = Err(InvalidParameter) /\ run = None
        ELSE /\ result.ok
             /\ run # None
             /\ ~run.generated
             /\ run.passes = <<>>
             /\ run.segmented_lines = <<>>

\* a call rejected for its base radius alone
C1_Witness ==
    /\ call.op = "RoseEngineLatheRun::new_with_segments"
    /\ call.num_passes > 0
    /\ call.segments_per_pass > 0
    /\ call.config.base_radius = 0
    /\ result = Err(InvalidParameter)

\* C2: on a lathe and on a run, an export (to_svg, and to_stl and to_step of
\* the lathe) returns the error "Pattern not generated" exactly when
\* generate() was never called on the instance; once generate() was called
\* the generated flag stays set.
C2_ExportNeedsGenerate ==
    /\ call.op \in ExportCalls =>
          ((result = Err(NotGenerated)) <=> ~hist.called)
    /\ Instance # None => (Instance.generated <=> hist.called)

\* an export refused before generate()
C2_Witness ==
    /\ call.op \in ExportCalls
    /\ ~hist.called
    /\ result = Err(NotGenerated)

\* C3: generate() called twice in a row on a lathe or on a run, in the
\* generic modes and in every specialized mode, leaves what one call leaves:
\* the second call changes no line, pass, tool-path point or cut edge.
C3_GenerateTwice ==
    [][ (/\ call.op \in {"RoseEngineLathe::generate", "RoseEngineLatheRun::generate"}
         /\ call'.op = call.op
         /\ hist'.again)
        => (lathe' = lathe /\ run' = run) ]_vars

\* a second generate() in a row on a run that holds passes and lines
C3_Witness ==
    /\ hist.again
    /\ run # None
    /\ run.passes # <<>>
    /\ Len(run.segmented_lines) >= 2

\* C4: with segments_per_pass = 1 on the generic path, every generated pass
\* contributes one polyline to lines(), and the polyline is the pass's whole
\* tool path, resolution + 1 points in order.
C4_OneSegmentIsWholePath ==
    (run # None /\ run.generated /\ branch = "generic" /\ run.segments_per_pass = 1)
    => /\ Len(run.segmented_lines) = Len(run.passes)
       /\ \A p \in 1..Len(run.passes) :
            /\ run.segmented_lines[p] = run.passes[p].tool_path
            /\ Len(run.segmented_lines[p]) = run.passes[p].config.resolution + 1

\* two passes, one polyline each
C4_Witness ==
    /\ run # None
    /\ run.generated
    /\ branch = "generic"
    /\ run.segments_per_pass = 1
    /\ Len(run.passes) >= 2
-----------------------------------------------------------------------------
(* Properties of segment_path with more than one segment (SegSpec)         *)

\* the polylines segment_path pushed are, for the draw length d: k of them
\* when d >= 1 and none otherwise, segment s the d path points from index
\* s * c on with c = floor(T / k), consecutive segments at least one undrawn
\* point apart, and no path point in two of them
SegmentsCover(lines, path, k, d) ==
    LET c == Len(path) \div k
    IN  /\ Len(lines) = IF d >= 1 THEN k ELSE 0
        /\ Len(lines) <= k
        /\ \A s \in 1..Len(lines) :
             lines[s] = SubSeq(path, (s - 1) * c + 1, (s - 1) * c + d)
        /\ c >= 1 => c - d >= 1
        /\ \A s \in 1..Len(lines), t \in 1..Len(lines) :
             s < t => { lines[s][i] : i \in 1..Len(lines[s]) }
                      \cap { lines[t][i] : i \in 1..Len(lines[t]) } = {}

\* C5, as the claim states it: with segments_per_pass = k > 1 and a path of
\* T points, segment s covers the indices [s*c, s*c + d) with c = floor(T/k)
\* and d = floor(0.7 * c), segments are a gap of at least one point apart and
\* share no point.
C5_AsStated ==
    (segOut.kind = "Lines" /\ segIn.self.segments_per_pass > 1)
    => SegmentsCover(segOut.lines, segIn.path, segIn.self.segments_per_pass,
                     (7 * (Len(segIn.path) \div segIn.self.segments_per_pass)) \div 10)

\* C5, amended: the same with d = floor(0.7 * c) or one less, d being the
\* f64 product of c and the double nearest to 0.7, truncated.
C5_SegmentsWithGaps ==
    (segOut.kind = "Lines" /\ segIn.self.segments_per_pass > 1)
    => \E d \in { (7 * (Len(segIn.path) \div segIn.self.segments_per_pass)) \div 10 - 1,
                  (7 * (Len(segIn.path) \div segIn.self.segments_per_pass)) \div 10 } :
         /\ d >= 0
         /\ SegmentsCover(segOut.lines, segIn.path, segIn.self.segments_per_pass, d)

\* 180 points in two segments: c = 90, and each segment has 62 points
C5_Witness ==
    /\ segOut.kind = "Lines"
    /\ segIn.self.segments_per_pass = 2
    /\ Len(segIn.path) = 180
    /\ Len(segOut.lines) = 2
    /\ Len(segOut.lines[1]) = 62
    /\ segOut.lines[2][1] = segIn.path[91]
-----------------------------------------------------------------------------
(* Properties of the output of RoseEngineLathe::generate                   *)

\* C6: after generate() on a lathe, the tool path, the centre line and each
\* of exactly two cut edges have resolution + 1 points, the rendered lines
\* are the tool path, the left edge and the right edge, and depth_map and
\* shading have resolution + 1 entries with depth modulation and are empty
\* without it.
C6_LatheOutputLengths ==
    (lathe # None /\ lathe.generated)
    => LET n == lathe.config.resolution + 1
           edges == lathe.cut_geometry.cut_edges
       IN  /\ Len(lathe.tool_path) = n
           /\ Len(lathe.cut_geometry.center_line) = n
           /\ Len(edges) = 2
           /\ Len(edges[1]) = n
           /\ Len(edges[2]) = n
           /\ lathe.rendered.lines = <<lathe.tool_path, edges[1], edges[2]>>
           /\ Len(lathe.rendered.depth_map)
                = (IF lathe.config.depth_modulation THEN n ELSE 0)
           /\ Len(lathe.rendered.shading)
                = (IF lathe.config.depth_modulation THEN n ELSE 0)

\* a generated lathe with depth modulation, and edges apart from the path
C6_Witness ==
    /\ lathe # None
    /\ lathe.generated
    /\ lathe.config.depth_modulation
    /\ Len(lathe.rendered.shading) = lathe.config.resolution + 1
    /\ lathe.cut_geometry.cut_edges[1] # lathe.tool_path

\* the distance of a tool-path point from the lathe's centre
CentreDistance(self, p) == Hypot(p.x - self.center_x, p.y - self.center_y)

\* C7, as the claim states it: every tool-path point generate() produces
\* lies within base_radius + amplitude + secondary_amplitude of the centre
\* (to two units of the last place the model keeps).
C7_AsStated ==
    (lathe # None /\ lathe.generated)
    => \A k \in 1..Len(lathe.tool_path) :
         CentreDistance(lathe, lathe.tool_path[k])
           <= lathe.config.base_radius + lathe.config.amplitude
              + lathe.config.secondary_amplitude + 2
-----------------------------------------------------------------------------
(* Properties of the paths of RoseEngineLatheRun::generate                 *)

\* the specialized generator options of a run
Specialized(self) ==
    { o \in {"linear_paon", "circular_diamant", "polar_limacon",
             "concentric_flinque", "circular_huiteight"} : self[o] # None }

\* line is a run of consecutive points of path
IsRunOf(line, path) ==
    \E start \in 1..(Len(path) - Len(line) + 1) :
        SubSeq(path, start, start + Len(line) - 1) = line

\* C8: a run built by a public constructor has at most one specialized
\* generator set, and generate() takes one path: with a specialized generator
\* the generic per-pass pipeline does not run and passes() stays empty,
\* without one no specialized branch runs and every line is cut from the tool
\* path of a pass, whatever radius_step and the phase fields hold.
C8_OneGenerationPath ==
    run # None =>
        /\ Cardinality(Specialized(run)) <= 1
        /\ run.generated =>
             /\ branch = "generic" <=> Specialized(run) \subseteq {"polar_limacon"}
             /\ branch # "generic" => run.passes = <<>>
             /\ branch = "generic" =>
                  \A s \in 1..Len(run.segmented_lines) :
                     \E p \in 1..Len(run.passes) :
                        IsRunOf(run.segmented_lines[s], run.passes[p].tool_path)

\* a specialized run generated after radius_step was written: it holds lines
\* and no pass
C8_Witness ==
    /\ run # None
    /\ Specialized(run) # {}
    /\ run.radius_step # 0
    /\ run.generated
    /\ ~hist.dirty
    /\ run.segmented_lines # <<>>
    /\ run.passes = <<>>

\* the passes of the generic loop whose configuration
\* RoseEngineLathe::new_with_center accepts
AcceptedIndexes(self) ==
    { i \in 0..(self.num_passes - 1) :
        /\ PassConfig(self, i).base_radius > 0
        /\ PassConfig(self, i).amplitude >= 0
        /\ PassConfig(self, i).resolution >= MinResolution }

\* the number of accepted passes before pass i
Rank(self, i) == Cardinality({ j \in AcceptedIndexes(self) : j < i })

\* C9: generate() on a run returns nothing that can fail and leaves the run
\* generated; on the generic path a pass whose configuration the lathe
\* constructor rejects adds nothing, the accepted passes are generated in
\* pass order, and passes().len() is their number, also when it is zero.
C9_RejectedPassesSkipped ==
    call.op = "RoseEngineLatheRun::generate" =>
        /\ result = Unit
        /\ run.generated
        /\ branch = "generic" =>
             /\ Len(run.passes) = Cardinality(AcceptedIndexes(run))
             /\ Len(run.passes) <= run.num_passes
             /\ \A i \in AcceptedIndexes(run) :
                  /\ run.passes[Rank(run, i) + 1].config = PassConfig(run, i)
                  /\ run.passes[Rank(run, i) + 1].generated
             /\ run.passes = <<>> => run.segmented_lines = <<>>

\* a generic run of three passes whose inner ring was skipped
C9_Witness ==
    /\ call.op = "RoseEngineLatheRun::generate"
    /\ branch = "generic"
    /\ run.num_passes = 3
    /\ Len(run.passes) = 2
    /\ run.generated

\* C10: new_diamant(num_circles, circle_radius, resolution, cx, cy) and then
\* generate() give num_circles polylines of resolution + 1 points, and
\* polyline i is circle i of the DiamantLayer of the same arguments.
C10_DiamantMatchesLayer ==
    (run # None /\ run.circular_diamant # None /\ run.generated)
    => LET cfg == run.circular_diamant
           layer == DiamantLayer_new_with_center(cfg, run.center_x, run.center_y)
       IN  /\ Len(run.segmented_lines) = cfg.num_circles
           /\ \A i \in 1..Len(run.segmented_lines) :
                Len(run.segmented_lines[i]) = cfg.resolution + 1
           /\ layer.ok =>
                run.segmented_lines = DiamantLayer_generate(layer.value).circles

\* three circles off the origin, as the layer draws them
C10_Witness ==
    /\ run # None
    /\ run.circular_diamant # None
    /\ run.generated
    /\ run.circular_diamant.num_circles = 3
    /\ run.center_x # 0
    /\ DiamantLayer_new_with_center(run.circular_diamant, run.center_x, run.center_y).ok
    /\ Len(run.segmented_lines) = 3
    /\ run.segmented_lines[1] # run.segmented_lines[2]
-----------------------------------------------------------------------------
(* draperie.rs: DraperieLayer, the reference of new_draperie               *)

\* the DraperieConfig new_draperie builds from its arguments
DraperieConfigOf(num_rings, base_radius, radius_step, wave_frequency, phase_shift, phase_oscillations, resolution, phase_exponent, wave_exponent, circular_phase) ==
    [ num_rings |-> num_rings,
      base_radius |-> base_radius,
      radius_step |-> radius_step,
      wave_frequency |-> wave_frequency,
      amplitude |-> None,
      phase_shift |-> phase_shift,
      phase_oscillations |-> phase_oscillations,
      resolution |-> resolution,
      phase_exponent |-> phase_exponent,
      wave_exponent |-> wave_exponent,
      circular_phase |-> circular_phase ]

\* DraperieLayer::new_with_center(config, center_x, center_y)
DraperieLayer_new_with_center(config, center_x, center_y) ==
    IF config.num_rings = 0 THEN Err(InvalidParameter)
    ELSE IF config.radius_step <= 0 THEN Err(InvalidParameter)
    ELSE IF config.base_radius <= 0 THEN Err(InvalidParameter)
    ELSE IF config.resolution < MinResolution THEN Err(InvalidParameter)
    ELSE OkOf([ kind |-> "DraperieLayer",
                config |-> config,
                center_x |-> center_x,
                center_y |-> center_y,
                rings |-> <<>> ])

\* `self.config.amplitude.unwrap_or_else(|| self.config.safe_amplitude())`
DraperieAmplitude(config) ==
    IF config.amplitude = None THEN safe_amplitude(config) ELSE config.amplitude.value

\* ring_base_radius of ring i
DraperieRingBase(config, i) ==
    config.base_radius + TDiv((2 * i - (config.num_rings - 1)) * config.radius_step, 2)

\* base_phase + ring_phase of ring i
DraperieRingPhase(config, i) ==
    PI \div 2 + TDiv(PI * Scale, 2 * config.wave_frequency)
    + FMul(config.phase_shift,
           DraperieConfig_phase_shape_fn(
               config, TDiv(FMul(2 * PI, config.phase_oscillations) * i, config.num_rings)))

\* wave_val at the angle theta of a ring of the given phase
DraperieWave(config, theta, phase) ==
    FPowi(Abs(Sin(FMul(theta + phase, config.wave_frequency))), config.wave_exponent)
    * Signum(Sin(FMul(theta + phase, config.wave_frequency)))

\* the points of one ring of DraperieLayer::generate
DraperieRing(self, amplitude, ring_base_radius, phase) ==
    [ k \in 1..(self.config.resolution + 1) |->
        Point2D(self.center_x
                + FMul(ring_base_radius
                       + FMul(amplitude,
                              DraperieWave(self.config,
                                           TDiv(2 * PI * (k - 1), self.config.resolution),
                                           phase)),
                       Cos(TDiv(2 * PI * (k - 1), self.config.resolution))),
                self.center_y
                + FMul(ring_base_radius
                       + FMul(amplitude,
                              DraperieWave(self.config,
                                           TDiv(2 * PI * (k - 1), self.config.resolution),
                                           phase)),
                       Sin(TDiv(2 * PI * (k - 1), self.config.resolution)))) ]

\* the rings DraperieLayer::generate pushes, for an amplitude
DraperieRings(self, amplitude) ==
    [ k \in 1..self.config.num_rings |->
        DraperieRing(self, amplitude, DraperieRingBase(self.config, k - 1),
                     DraperieRingPhase(self.config, k - 1)) ]

\* DraperieLayer::generate(&mut self)
DraperieLayer_generate(self) ==
    [self EXCEPT !.rings = DraperieRings(self, DraperieAmplitude(self.config))]
-----------------------------------------------------------------------------
(* The equivalence constructors on their own: a run is made by one of them *)
(* and generated                                                           *)

ModeNext ==
    \/ NewDiamant
    \/ NewLimacon
    \/ NewFlinque
    \/ NewHuitEight
    \/ NewPaon
    \/ NewDraperie
    \/ RunGenerate

ModeSpec == Init /\ [][ModeNext]_vars

\* the DraperieLayer of the arguments a new_draperie call was given
DraperieLayerOf(a) ==
    DraperieLayer_new_with_center(
        DraperieConfigOf(a.num_rings, a.base_radius, a.radius_step, a.wave_frequency,
                         a.phase_shift, a.phase_oscillations, a.resolution,
                         a.phase_exponent, a.wave_exponent, a.circular_phase),
        a.center_x, a.center_y)

\* C11, as the claim states it: new_draperie and then generate() give what
\* DraperieLayer gives for the same arguments and the automatic amplitude,
\* for every argument set DraperieLayer accepts: num_rings rings of
\* resolution + 1 points, ring i point j the layer's.
C11_AsStated ==
    (hist.ctor.op = "RoseEngineLatheRun::new_draperie" /\ run # None /\ run.generated
        /\ DraperieLayerOf(hist.ctor).ok)
    => /\ Len(run.segmented_lines) = hist.ctor.num_rings
       /\ \A i \in 1..Len(run.segmented_lines) :
            Len(run.segmented_lines[i]) = hist.ctor.resolution + 1
       /\ run.segmented_lines = DraperieLayer_generate(DraperieLayerOf(hist.ctor).value).rings

\* C12, as the claim states it: in the draperie output generated with the
\* automatic safe amplitude, at every sample index the radius of ring i + 1
\* is not below the radius of ring i (to two units of the last place the
\* model keeps).
C12_AsStated ==
    (hist.ctor.op = "RoseEngineLatheRun::new_draperie" /\ run # None /\ run.generated)
    => \A i \in 1..(Len(run.segmented_lines) - 1) :
          \A j \in 1..Len(run.segmented_lines[i]) :
             CentreDistance(run, run.segmented_lines[i + 1][j])
                >= CentreDistance(run, run.segmented_lines[i][j]) - 2

\* ---------------------------------------------------------------------
\* HuitEightLayer (huiteight.rs), the reference the huit-eight run is
\* compared with
\* ---------------------------------------------------------------------

\* HuitEightLayer::new_with_center
HuitEightLayer_new_with_center(config, center_x, center_y) ==
    IF config.scale <= 0 THEN Err("scale must be positive")
    ELSE IF config.num_curves = 0 THEN Err("num_curves must be at least 1")
    ELSE IF config.resolution < 10 THEN Err("resolution must be at least 10")
    ELSE OkOf([config |-> config, center_x |-> center_x, center_y |-> center_y,
               curves |-> <<>>])

\* the number of curves of cluster k of HuitEightLayer::generate
HuitEightClusterCount(config, k) ==
    (config.num_curves \div config.num_clusters)
    + (IF k < config.num_curves % config.num_clusters THEN 1 ELSE 0)

\* the spread of one cluster of HuitEightLayer::generate
HuitEightSpread(config) ==
    IF config.cluster_spread > 0 THEN config.cluster_spread
    ELSE TDiv(TDiv(2 * PI, config.num_clusters), 2)

\* the rotation of curve c of cluster k: cluster_center + t * spread with
\* t = c / (count - 1) - 0.5
HuitEightClusterRotation(config, k, c) ==
    IF HuitEightClusterCount(config, k) > 1
    THEN k * TDiv(2 * PI, config.num_clusters)
         + TDiv(HuitEightSpread(config) * (2 * c - (HuitEightClusterCount(config, k) - 1)),
                2 * (HuitEightClusterCount(config, k) - 1))
    ELSE k * TDiv(2 * PI, config.num_clusters)

RECURSIVE HuitEightClusters(_, _)
\* the rotations of the clusters k.. of HuitEightLayer::generate
HuitEightClusters(config, k) ==
    IF k >= config.num_clusters THEN <<>>
    ELSE [ c \in 1..HuitEightClusterCount(config, k) |->
             HuitEightClusterRotation(config, k, c - 1) ]
         \o HuitEightClusters(config, k + 1)

\* the `rotations` vector of HuitEightLayer::generate
HuitEightLayerRotations(config) ==
    IF config.num_clusters > 0 /\ config.num_clusters < config.num_curves
    THEN HuitEightClusters(config, 0)
    ELSE [ i \in 1..config.num_curves |-> (i - 1) * TDiv(2 * PI, config.num_curves) ]

\* lx and ly of the lemniscate of Bernoulli at an angle
LemniscateX(a, angle) == FDiv(FMul(a, Cos(angle)), Scale + FMul(Sin(angle), Sin(angle)))
LemniscateY(a, angle) ==
    FDiv(FMul(FMul(a, Sin(angle)), Cos(angle)), Scale + FMul(Sin(angle), Sin(angle)))

\* one rotated lemniscate of HuitEightLayer::generate
HuitEightCurve(self, rotation) ==
    [ k \in 1..(self.config.resolution + 1) |->
        Point2D(self.center_x
                + FMul(LemniscateX(self.config.scale,
                                   TDiv(2 * PI * (k - 1), self.config.resolution)),
                       Cos(rotation))
                - FMul(LemniscateY(self.config.scale,
                                   TDiv(2 * PI * (k - 1), self.config.resolution)),
                       Sin(rotation)),
                self.center_y
                + FMul(LemniscateX(self.config.scale,
                                   TDiv(2 * PI * (k - 1), self.config.resolution)),
                       Sin(rotation))
                + FMul(LemniscateY(self.config.scale,
                                   TDiv(2 * PI * (k - 1), self.config.resolution)),
                       Cos(rotation))) ]

\* HuitEightLayer::generate
HuitEightLayer_generate(self) ==
    [self EXCEPT !.curves =
        [ k \in 1..Len(HuitEightLayerRotations(self.config)) |->
            HuitEightCurve(self, HuitEightLayerRotations(self.config)[k]) ]]

\* the HuitEightLayer built from the arguments of a new_huiteight call
HuitEightLayerOf(a) ==
    HuitEightLayer_new_with_center(
        [num_curves |-> a.num_curves, scale |-> a.scale, resolution |-> a.resolution,
         num_clusters |-> a.num_clusters, cluster_spread |-> a.cluster_spread],
        a.center_x, a.center_y)

\* C13: a run made by new_huiteight, once generated, has the output of the
\* HuitEightLayer of the same arguments whenever that layer exists, in the
\* uniform and in the clustered mode: the same rotation angles, num_curves
\* curves of resolution + 1 points each, and the same points.
C13_HuitEightMatchesLayer ==
    (hist.ctor.op = "RoseEngineLatheRun::new_huiteight" /\ run # None /\ run.generated
        /\ HuitEightLayerOf(hist.ctor).ok)
    => /\ HuitEightRotations(run.circular_huiteight)
            = HuitEightLayerRotations(HuitEightLayerOf(hist.ctor).value.config)
       /\ Len(run.segmented_lines) = hist.ctor.num_curves
       /\ \A i \in 1..Len(run.segmented_lines) :
             Len(run.segmented_lines[i]) = hist.ctor.resolution + 1
       /\ run.segmented_lines
            = HuitEightLayer_generate(HuitEightLayerOf(hist.ctor).value).curves

\* a generated huit-eight run in the clustered mode with an explicit spread
C13_Witness ==
    /\ hist.ctor.op = "RoseEngineLatheRun::new_huiteight"
    /\ run # None /\ run.generated
    /\ HuitEightLayerOf(hist.ctor).ok
    /\ hist.ctor.num_clusters > 0 /\ hist.ctor.num_clusters < hist.ctor.num_curves
    /\ hist.ctor.cluster_spread > 0
    /\ Len(run.segmented_lines) = 3

\* ---------------------------------------------------------------------
\* LimaconLayer (limacon.rs), the reference the limacon run is compared with
\* ---------------------------------------------------------------------

\* LimaconLayer::new_with_center
LimaconLayer_new_with_center(config, center_x, center_y) ==
    IF config.base_radius <= 0 THEN Err("base_radius must be positive")
    ELSE IF config.num_curves = 0 THEN Err("num_curves must be at least 1")
    ELSE IF config.resolution < 10 THEN Err("resolution must be at least 10")
    ELSE OkOf([config |-> config, center_x |-> center_x, center_y |-> center_y,
               curves |-> <<>>])

\* r = base_radius + amplitude * sin(theta + phase)
LimaconRadius(config, theta, phase) ==
    config.base_radius + FMul(config.amplitude, Sin(theta + phase))

\* curve i of LimaconLayer::generate, of phase i * phase_step
LimaconCurve(self, i) ==
    [ k \in 1..(self.config.resolution + 1) |->
        Point2D(self.center_x
                + FMul(LimaconRadius(self.config,
                                     TDiv(2 * PI * (k - 1), self.config.resolution),
                                     i * TDiv(2 * PI, self.config.num_curves)),
                       Cos(TDiv(2 * PI * (k - 1), self.config.resolution))),
                self.center_y
                + FMul(LimaconRadius(self.config,
                                     TDiv(2 * PI * (k - 1), self.config.resolution),
                                     i * TDiv(2 * PI, self.config.num_curves)),
                       Sin(TDiv(2 * PI * (k - 1), self.config.resolution)))) ]

\* LimaconLayer::generate
LimaconLayer_generate(self) ==
    [self EXCEPT !.curves = [ k \in 1..self.config.num_curves |-> LimaconCurve(self, k - 1) ]]

\* the LimaconLayer built from the arguments of a new_limacon call
LimaconLayerOf(a) ==
    LimaconLayer_new_with_center(
        [num_curves |-> a.num_curves, base_radius |-> a.base_radius,
         amplitude |-> a.amplitude, resolution |-> a.resolution],
        a.center_x, a.center_y)

\* C14, as the claim states it: a run made by new_limacon, once generated,
\* has the output of the LimaconLayer of the same arguments for every
\* argument list the layer accepts: num_curves curves of resolution + 1
\* points, equal point for point.
C14_AsStated ==
    (hist.ctor.op = "RoseEngineLatheRun::new_limacon" /\ LimaconLayerOf(hist.ctor).ok
        /\ hist.called)
    => /\ run # None /\ run.generated
       /\ Len(run.segmented_lines) = hist.ctor.num_curves
       /\ \A i \in 1..Len(run.segmented_lines) :
             Len(run.segmented_lines[i]) = hist.ctor.resolution + 1
       /\ run.segmented_lines = LimaconLayer_generate(LimaconLayerOf(hist.ctor).value).curves

\* ---------------------------------------------------------------------
\* PaonLayer (paon.rs), the reference the paon run is compared with
\* ---------------------------------------------------------------------

\* PaonLayer::new_with_center
PaonLayer_new_with_center(config, center_x, center_y) ==
    IF config.num_lines = 0 THEN Err("num_lines must be at least 1")
    ELSE IF config.radius <= 0 THEN Err("radius must be positive")
    ELSE IF config.resolution < 10 THEN Err("resolution must be at least 10")
    ELSE IF config.amplitude < 0 THEN Err("amplitude must be non-negative")
    ELSE OkOf([config |-> config, center_x |-> center_x, center_y |-> center_y,
               lines |-> <<>>])

\* y_vp = r + vanishing_point * diameter
PaonLayerYVp(config) == config.radius + FMul(config.vanishing_point, 2 * config.radius)

\* y_crit = (r * r / y_vp).min(r)
PaonLayerYCrit(config) ==
    Min(FDiv(FMul(config.radius, config.radius), PaonLayerYVp(config)), config.radius)

\* angle_max = ((r * r - y_crit * y_crit).sqrt() / (y_vp - y_crit)).atan()
PaonLayerAngleMax(config) ==
    Atan2(FSqrt(FMul(config.radius, config.radius)
                - FMul(PaonLayerYCrit(config), PaonLayerYCrit(config))),
          PaonLayerYVp(config) - PaonLayerYCrit(config))

\* angle = -angle_max + 2 * angle_max * frac of line i
PaonLayerAngle(config, i) ==
    IF config.num_lines > 1
    THEN -PaonLayerAngleMax(config)
         + TDiv(2 * PaonLayerAngleMax(config) * i, config.num_lines - 1)
    ELSE -PaonLayerAngleMax(config) + PaonLayerAngleMax(config)

\* line_phase = -2 PI fan_angle |sin(PI phase_rate frac)| of line i
PaonLayerLinePhase(config, i) ==
    -FMul(FMul(2 * PI, config.fan_angle),
          Abs(Sin(IF config.num_lines > 1
                  THEN TDiv(FMul(PI, config.phase_rate) * i, config.num_lines - 1)
                  ELSE TDiv(FMul(PI, config.phase_rate), 2))))

\* y of sample j
PaonLayerY(config, j) == -config.radius + TDiv(2 * config.radius * j, config.resolution)

\* x = x_base + offset of sample j of line i
PaonLayerX(config, i, j) ==
    FMul(PaonLayerYVp(config) - PaonLayerY(config, j), Tan(PaonLayerAngle(config, i)))
    + FMul(config.amplitude,
           paon_wave_fn(FMul(FMul(2 * PI, config.wave_frequency),
                             Ln(FDiv(PaonLayerYVp(config) - PaonLayerY(config, j),
                                     PaonLayerYVp(config) - config.radius)))
                        + PaonLayerLinePhase(config, i),
                        config.n_harmonics))

\* `if x * x + y * y <= r * r` of sample j of line i
PaonLayerInside(config, i, j) ==
    PaonLayerX(config, i, j) * PaonLayerX(config, i, j)
    + PaonLayerY(config, j) * PaonLayerY(config, j) <= config.radius * config.radius

RECURSIVE PaonLayerLine(_, _, _)
\* line_points of line i, from sample j on
PaonLayerLine(self, i, j) ==
    IF j > self.config.resolution THEN <<>>
    ELSE (IF PaonLayerInside(self.config, i, j)
          THEN << Point2D(self.center_x + PaonLayerX(self.config, i, j),
                          self.center_y + PaonLayerY(self.config, j)) >>
          ELSE <<>>)
         \o PaonLayerLine(self, i, j + 1)

RECURSIVE PaonLayerLines(_, _)
\* the lines PaonLayer::generate pushes from line i on
PaonLayerLines(self, i) ==
    IF i >= self.config.num_lines THEN <<>>
    ELSE (IF Len(PaonLayerLine(self, i, 0)) >= 2 THEN << PaonLayerLine(self, i, 0) >>
          ELSE <<>>)
         \o PaonLayerLines(self, i + 1)

\* PaonLayer::generate
PaonLayer_generate(self) == [self EXCEPT !.lines = PaonLayerLines(self, 0)]

\* the PaonLayer built from the arguments of a new_paon call
PaonLayerOf(a) ==
    PaonLayer_new_with_center(
        [num_lines |-> a.num_lines, radius |-> a.radius, amplitude |-> a.amplitude,
         wave_frequency |-> a.wave_frequency, phase_rate |-> a.phase_rate,
         resolution |-> a.resolution, n_harmonics |-> a.n_harmonics,
         fan_angle |-> a.fan_angle, vanishing_point |-> a.vanishing_point],
        a.center_x, a.center_y)

\* C15: in the output of a generated run made by new_paon every point lies
\* inside or on the circle of the given radius around the centre, every
\* polyline has at least 2 points, there are at most num_lines polylines,
\* and the output is that of the PaonLayer of the same arguments.
C15_PaonClippedAndMatchesLayer ==
    (hist.ctor.op = "RoseEngineLatheRun::new_paon" /\ run # None /\ run.generated)
    => /\ \A i \in 1..Len(run.segmented_lines) :
             /\ Len(run.segmented_lines[i]) >= 2
             /\ \A j \in 1..Len(run.segmented_lines[i]) :
                   (run.segmented_lines[i][j].x - run.center_x)
                      * (run.segmented_lines[i][j].x - run.center_x)
                   + (run.segmented_lines[i][j].y - run.center_y)
                      * (run.segmented_lines[i][j].y - run.center_y)
                   <= hist.ctor.radius * hist.ctor.radius
       /\ Len(run.segmented_lines) <= hist.ctor.num_lines
       /\ PaonLayerOf(hist.ctor).ok
          => run.segmented_lines = PaonLayer_generate(PaonLayerOf(hist.ctor).value).lines

\* a generated paon run whose layer exists, with a line dropped and a kept
\* line that lost samples to the clip
C15_Witness ==
    /\ hist.ctor.op = "RoseEngineLatheRun::new_paon"
    /\ run # None /\ run.generated
    /\ PaonLayerOf(hist.ctor).ok
    /\ Len(run.segmented_lines) > 0
    /\ Len(run.segmented_lines) < hist.ctor.num_lines
    /\ \E i \in 1..Len(run.segmented_lines) :
          Len(run.segmented_lines[i]) < hist.ctor.resolution + 1

\* base_r of ring k of a flinque call: inner + (outer - inner) * (k + 0.5) / num_waves
FlinqueBaseR(a, k) ==
    FMul(a.radius, a.inner_radius_ratio)
    + TDiv((a.radius - FMul(a.radius, a.inner_radius_ratio)) * (2 * k + 1),
           2 * a.num_waves)

RECURSIVE FlinqueRadii(_, _)
\* the radii base_r of the rings k.. that are not below 0.1 * wave_amplitude
FlinqueRadii(a, k) ==
    IF k >= a.num_waves THEN <<>>
    ELSE (IF FlinqueBaseR(a, k) >= TDiv(a.wave_amplitude, 10)
          THEN << FlinqueBaseR(a, k) >> ELSE <<>>)
         \o FlinqueRadii(a, k + 1)

\* the first and the last point of a polyline coincide
ClosedLine(line) == line[Len(line)] = line[1]

LatheConstructors == {"RoseEngineLathe::new", "RoseEngineLathe::new_with_center"}

\* C17: RoseEngineLathe::new and new_with_center return InvalidParameter
\* exactly when base_radius <= 0, amplitude < 0 or resolution < 10; every
\* other configuration gives a lathe of that configuration with an empty
\* tool path, empty cut geometry, empty rendered output and generated =
\* false; generate() reports no error.
C17_LatheConstruction ==
    /\ call.op \in LatheConstructors
       => IF \/ call.config.base_radius <= 0
             \/ call.config.amplitude < 0
             \/ call.config.resolution < 10
          THEN result = Err(InvalidParameter) /\ lathe = None
          ELSE /\ result.ok
               /\ lathe # None
               /\ lathe.config = call.config
               /\ lathe.tool_path = <<>>
               /\ lathe.cut_geometry.center_line = <<>>
               /\ lathe.cut_geometry.cut_edges = <<>>
               /\ lathe.cut_geometry.arcs = <<>>
               /\ lathe.rendered.lines = <<>>
               /\ lathe.rendered.depth_map = <<>>
               /\ lathe.rendered.shading = <<>>
               /\ ~lathe.generated
    /\ call.op = "RoseEngineLathe::generate" => result = Unit /\ lathe.generated

\* a lathe construction refused for its negative amplitude alone
C17_Witness ==
    /\ call.op \in LatheConstructors
    /\ call.config.base_radius > 0
    /\ call.config.resolution >= 10
    /\ call.config.amplitude < 0
    /\ result = Err(InvalidParameter)

\* the vertex of a tool-path point at height z
StlVertex(p, z) == <<p.x, p.y, z>>

\* C18: a to_stl that succeeds on a generated lathe writes exactly
\* 2 * resolution triangles and nothing else: for the i-th pair of
\* consecutive tool-path points, in path order, the triangle
\* (top i, top i+1, bottom i) and then (top i+1, bottom i+1, bottom i), the
\* bottom being at -depth.
C18_StlTwoTrianglesPerSegment ==
    (call.op = "RoseEngineLathe::to_stl" /\ result.ok)
    => /\ lathe.generated
       /\ Len(result.value.triangles) = 2 * lathe.config.resolution
       /\ \A i \in 1..lathe.config.resolution :
             /\ result.value.triangles[2 * i - 1]
                  = << StlVertex(lathe.tool_path[i], 0),
                       StlVertex(lathe.tool_path[i + 1], 0),
                       StlVertex(lathe.tool_path[i], -ExportDepth) >>
             /\ result.value.triangles[2 * i]
                  = << StlVertex(lathe.tool_path[i + 1], 0),
                       StlVertex(lathe.tool_path[i + 1], -ExportDepth),
                       StlVertex(lathe.tool_path[i], -ExportDepth) >>

\* a mesh of 24 triangles written for a lathe of resolution 12
C18_Witness ==
    /\ call.op = "RoseEngineLathe::to_stl"
    /\ result.ok
    /\ lathe.config.resolution = 12
    /\ Len(result.value.triangles) = 24

-----------------------------------------------------------------------------
(* RosettePattern::displacement on its own: a built-in rosette is asked for *)
(* its displacement at an angle                                            *)

\* the sampled angles: every 4 degrees over one turn and a half
RosetteAngles == { 8 * k : k \in 0..((3 * Turn) \div 16) }

\* built-in rosettes: every variant, with whole and fractional parameters
RosettePatterns ==
    { Circular,
      Elliptical(F(7), 0), Elliptical(1500, 60),
      Sinusoidal(F(1)), Sinusoidal(F(3)), Sinusoidal(1500),
      MultiLobe(3), RosettePattern_default,
      Epicycloid(5),
      HuitEight(1), HuitEight(8),
      GrainDeRiz(F(1), 2), GrainDeRiz(F(2), 20),
      Draperie(F(6), 1), Draperie(F(6), 3), Draperie(2500, 1),
      Paon(F(4)), Paon(500),
      Diamant(8) }

RosetteInit ==
    /\ lathe = None
    /\ run = None
    /\ \E rosette \in RosettePatterns, angle \in RosetteAngles :
         call = [op |-> "none", rosette |-> rosette, angle |-> angle]
    /\ result = Unit
    /\ branch = "none"
    /\ hist = FreshHist
    /\ segIn = None
    /\ segOut = None

\* rosette.displacement(angle)
Displacement ==
    /\ call.op = "none"
    /\ call' = [call EXCEPT !.op = "RosettePattern::displacement"]
    /\ result' = OkOf(displacement(call.rosette, call.angle))
    /\ UNCHANGED <<lathe, run, branch, hist, segIn, segOut>>

RosetteNext == Displacement

RosetteSpec == RosetteInit /\ [][RosetteNext]_vars

\* C19, as the claim states it: for every built-in rosette and parameter
\* value the displacement at an angle equals the displacement one full turn
\* later (to two units of the last place the model keeps).
C19_AsStated ==
    call.op = "RosettePattern::displacement"
    => Abs(displacement(call.rosette, call.angle + 2 * PI) - result.value) <= 2

\* C20, as the claim states it: for every built-in rosette and parameter
\* value the displacement at every angle lies in [-1, 1].
C20_AsStated ==
    call.op = "RosettePattern::displacement"
    => result.value >= -Scale /\ result.value <= Scale

-----------------------------------------------------------------------------
(* Writes to the public fields of an instance, between the constructor and *)
(* generate(): `pub config` of RoseEngineLathe, and `pub base_config`,     *)
(* `pub num_passes`, `pub segments_per_pass` and the phase fields of       *)
(* RoseEngineLatheRun                                                      *)

\* values written to lathe.config: one the constructor would accept, with a
\* depth modulation larger than the whole depth, and one it would reject
LatheConfigWrites ==
    { [base_radius |-> F(3), amplitude |-> 500, resolution |-> 12,
       depth_modulation |-> TRUE, depth_modulation_amplitude |-> F(3),
       depth_modulation_frequency |-> F(2)],
      [base_radius |-> -F(1), amplitude |-> F(1), resolution |-> 5,
       depth_modulation |-> FALSE, depth_modulation_amplitude |-> 0,
       depth_modulation_frequency |-> F(1)] }

\* lathe.config.<field> = <value>, for each field of w
LatheWriteConfig ==
    /\ lathe # None
    /\ \E w \in LatheConfigWrites :
         /\ lathe' = [lathe EXCEPT
                         !.config.base_radius = w.base_radius,
                         !.config.amplitude = w.amplitude,
                         !.config.resolution = w.resolution,
                         !.config.depth_modulation = w.depth_modulation,
                         !.config.depth_modulation_amplitude =
                             w.depth_modulation_amplitude,
                         !.config.depth_modulation_frequency =
                             w.depth_modulation_frequency]
         /\ call' = [op |-> "write lathe.config", fields |-> w]
    /\ result' = Unit
    /\ hist' = [hist EXCEPT !.written = TRUE, !.dirty = TRUE, !.again = FALSE,
                            !.over = FALSE]
    /\ UNCHANGED <<run, branch, segIn, segOut>>

\* values written to a run: a phase-rotation run the constructor would accept
\* with its phase fields set, and values the constructor would reject
RunConfigWrites ==
    { [num_passes |-> 2, segments_per_pass |-> 2, resolution |-> 12,
       base_radius |-> F(3), phase |-> 30,
       phase_shift |-> 60, phase_oscillations |-> 500,
       circular_phase |-> F(2), phase_exponent |-> 3],
      [num_passes |-> 0, segments_per_pass |-> 0, resolution |-> 5,
       base_radius |-> -F(1), phase |-> 0,
       phase_shift |-> 0, phase_oscillations |-> F(1),
       circular_phase |-> 0, phase_exponent |-> 1] }

\* run.<field> = <value> and run.base_config.<field> = <value>, for each
\* field of w; radius_step is left as it is
RunWriteConfig ==
    /\ run # None
    /\ \E w \in RunConfigWrites :
         /\ run' = [run EXCEPT !.num_passes = w.num_passes,
                               !.segments_per_pass = w.segments_per_pass,
                               !.base_config.resolution = w.resolution,
                               !.base_config.base_radius = w.base_radius,
                               !.base_config.phase = w.phase,
                               !.phase_shift = w.phase_shift,
                               !.phase_oscillations = w.phase_oscillations,
                               !.circular_phase = w.circular_phase,
                               !.phase_exponent = w.phase_exponent]
         /\ call' = [op |-> "write run fields", fields |-> w]
    /\ result' = Unit
    /\ hist' = [hist EXCEPT !.written = TRUE, !.dirty = TRUE, !.again = FALSE,
                            !.over = FALSE]
    /\ UNCHANGED <<lathe, branch, segIn, segOut>>

WriteNext ==
    \/ NewLathe
    \/ LatheWriteConfig
    \/ LatheGenerate
    \/ NewRunWithSegments
    \/ RunWriteConfig
    \/ RunGenerate

WriteSpec == Init /\ [][WriteNext]_vars

\* an instance as its constructor leaves it, with the configuration of self
Unused(self) ==
    IF self.kind = "Lathe"
    THEN FreshLathe(self.config, self.cutting_bit, self.center_x, self.center_y)
    ELSE [self EXCEPT !.passes = <<>>, !.segmented_lines = <<>>,
                      !.generated = FALSE]

\* C22: after generate(), a lathe or a run holds exactly what generate()
\* makes of a never-generated instance of the same configuration, whatever
\* was generated before and whichever configuration was in effect then:
\* nothing of an earlier generation is left.
C22_OutputOfCurrentConfig ==
    /\ (lathe # None /\ call.op = "RoseEngineLathe::generate")
          => lathe = RoseEngineLathe_generate(Unused(lathe))
    /\ (run # None /\ call.op = "RoseEngineLatheRun::generate")
          => run = RoseEngineLatheRun_generate(Unused(run))

\* generate() has just run after a write that followed an earlier generate(),
\* and the earlier generation had left points behind
C22_Witness ==
    /\ hist.over
    /\ call.op \in {"RoseEngineLathe::generate", "RoseEngineLatheRun::generate"}
    /\ Instance.generated
    /\ IF lathe # None THEN lathe.tool_path # <<>> ELSE run.passes # <<>>

\* a run with its four phase fields as the constructors leave them
PlainPhase(self) ==
    [self EXCEPT !.phase_shift = 0, !.phase_oscillations = Scale,
                 !.circular_phase = 0, !.phase_exponent = 1]

\* C23: in phase-rotation mode (radius_step = 0, no specialized generator)
\* pass i of N = num_passes is generated with phase = base_config.phase +
\* i * (2 * PI / N) and every other configuration field as in base_config,
\* and phase_shift, phase_oscillations, circular_phase and phase_exponent
\* have no effect on the passes and polylines.
C23_PhaseRotation ==
    (run # None /\ call.op = "RoseEngineLatheRun::generate"
        /\ run.radius_step = 0 /\ Specialized(run) = {})
    => /\ Len(run.passes) \in {0, run.num_passes}
       /\ \A p \in 1..Len(run.passes) :
            run.passes[p].config =
                [run.base_config EXCEPT
                    !.phase = @ + (p - 1) * TDiv(2 * PI, run.num_passes)]
       /\ run.passes = RoseEngineLatheRun_generate(Unused(PlainPhase(run))).passes
       /\ run.segmented_lines =
              RoseEngineLatheRun_generate(Unused(PlainPhase(run))).segmented_lines

\* a phase-rotation run with a non-zero phase_shift and base phase has
\* generated two passes, the second one rotated
C23_Witness ==
    /\ run # None /\ call.op = "RoseEngineLatheRun::generate"
    /\ run.radius_step = 0 /\ Specialized(run) = {}
    /\ run.phase_shift # 0 /\ run.base_config.phase # 0
    /\ Len(run.passes) = 2
    /\ run.passes[2].config.phase = run.base_config.phase + PI
    /\ run.segmented_lines # <<>>

\* the configuration pass i of the run was generated with (i accepted)
ConfigOfPass(self, i) == self.passes[Rank(self, i) + 1].config

\* twice the distance of pass i from the configured radius
TwiceOffset(self, i) ==
    2 * (ConfigOfPass(self, i).base_radius - self.base_config.base_radius)

\* C24: in concentric-ring mode (radius_step # 0 of either sign, no
\* specialized generator) pass i of N is generated with base_radius =
\* base_config.base_radius + (i - (N-1)/2) * radius_step: consecutive passes
\* differ by radius_step, passes i and N-1-i lie symmetrically around the
\* configured radius, the middle pass of an odd N has the configured radius,
\* and the phase is base_config.phase + phase_shift * phase_shape_fn(t), so
\* with phase_shift = 0 no pass is rotated.
C24_ConcentricRings ==
    (run # None /\ call.op = "RoseEngineLatheRun::generate"
        /\ run.radius_step # 0 /\ Specialized(run) = {})
    => LET N == run.num_passes
           acc == AcceptedIndexes(run)
       IN  /\ Len(run.passes) = Cardinality(acc)
           /\ \A i \in acc :
                /\ TwiceOffset(run, i) = (2 * i - (N - 1)) * run.radius_step
                /\ (i + 1) \in acc =>
                      ConfigOfPass(run, i + 1).base_radius
                      - ConfigOfPass(run, i).base_radius = run.radius_step
                /\ (N - 1 - i) \in acc =>
                      TwiceOffset(run, i) + TwiceOffset(run, N - 1 - i) = 0
                /\ 2 * i = N - 1 =>
                      ConfigOfPass(run, i).base_radius = run.base_config.base_radius
                /\ ConfigOfPass(run, i).phase =
                      run.base_config.phase
                      + FMul(run.phase_shift,
                             phase_shape_fn(run, TDiv(FMul(2 * PI, run.phase_oscillations) * i, N)))
                /\ run.phase_shift = 0 =>
                      ConfigOfPass(run, i).phase = run.base_config.phase

\* a ring run of three passes has generated all three, the middle one on the
\* configured radius and the outer two on either side of it
C24_Witness ==
    /\ run # None /\ call.op = "RoseEngineLatheRun::generate"
    /\ run.radius_step # 0 /\ Specialized(run) = {}
    /\ run.num_passes = 3 /\ Len(run.passes) = 3
    /\ run.passes[2].config.base_radius = run.base_config.base_radius
    /\ run.passes[1].config.base_radius # run.passes[3].config.base_radius

\* C25, as the claim states it: when depth modulation is enabled every shading
\* sample generate() produces lies in [0.0, 1.0], for every amplitude and
\* frequency with_depth_modulation accepts and every cutting bit.
C25_AsStated ==
    (lathe # None /\ call.op = "RoseEngineLathe::generate"
        /\ lathe.config.depth_modulation)
    => \A k \in 1..Len(lathe.rendered.shading) :
          lathe.rendered.shading[k] >= 0 /\ lathe.rendered.shading[k] <= Scale

\* C26, as the claim states it: on the generic path with segments_per_pass
\* = k > 1 every generated pass contributes at least one polyline to lines(),
\* so a generated run with an accepted pass never has an empty lines().
C26_AsStated ==
    (run # None /\ call.op = "RoseEngineLatheRun::generate"
        /\ branch = "generic" /\ run.segments_per_pass > 1)
    => /\ Len(run.segmented_lines) >= Len(run.passes)
       /\ run.passes # <<>> => run.segmented_lines # <<>>

\* the number of curves of cluster k, and of the clusters before it
ClusterCount(n, nc, k) == n \div nc + (IF k < n % nc THEN 1 ELSE 0)
ClusterStart(n, nc, k) == k * (n \div nc) + Min(k, n % nc)

\* rots is the rotation list of n curves in nc clusters as the claim has it
RotationsAsClaimed(rots, n, nc, cluster_spread) ==
    /\ Len(rots) = n
    /\ IF nc > 0 /\ nc < n
       THEN LET sector == TDiv(2 * PI, nc)
                spread == IF cluster_spread > 0 THEN cluster_spread
                          ELSE TDiv(sector, 2)
            IN  \A k \in 0..(nc - 1) :
                   LET count == ClusterCount(n, nc, k)
                       start == ClusterStart(n, nc, k)
                   IN  /\ start + count <= Len(rots)
                       /\ count = 1 => rots[start + 1] = k * sector
                       /\ count > 1 =>
                             /\ rots[start + 1] = k * sector - TDiv(spread, 2)
                             /\ rots[start + count] = k * sector + TDiv(spread, 2)
                       /\ \A c \in 1..count :
                             Abs(rots[start + c] - k * sector) <= TDiv(spread, 2)
       ELSE \A i \in 1..Len(rots) : rots[i] = (i - 1) * TDiv(2 * PI, n)

\* C27: in huit-eight mode the rotation list has exactly num_curves entries
\* (one polyline each): with 0 < num_clusters < num_curves cluster k holds
\* floor(n / nc) curves plus one if k < n mod nc, spread over the cluster's
\* arc around its centre, a single curve exactly at the centre; with
\* num_clusters = 0 or >= num_curves the spacing is uniform.  The same holds
\* of HuitEightLayer's list.
C27_HuitEightRotationCount ==
    (hist.ctor.op = "RoseEngineLatheRun::new_huiteight" /\ run # None /\ run.generated)
    => LET he_cfg == run.circular_huiteight
       IN  /\ RotationsAsClaimed(HuitEightRotations(he_cfg), he_cfg.num_curves,
                                 he_cfg.num_clusters, he_cfg.cluster_spread)
           /\ Len(run.segmented_lines) = he_cfg.num_curves
           /\ HuitEightLayerOf(hist.ctor).ok =>
                 RotationsAsClaimed(
                     HuitEightLayerRotations(HuitEightLayerOf(hist.ctor).value.config),
                     he_cfg.num_curves, he_cfg.num_clusters, he_cfg.cluster_spread)

\* a generated huit-eight run of three curves in two clusters: one cluster
\* of two curves and one of a single curve
C27_Witness ==
    /\ hist.ctor.op = "RoseEngineLatheRun::new_huiteight"
    /\ run # None /\ run.generated
    /\ run.circular_huiteight.num_curves = 3
    /\ run.circular_huiteight.num_clusters = 2
    /\ ClusterCount(3, 2, 0) = 2 /\ ClusterCount(3, 2, 1) = 1
    /\ HuitEightRotations(run.circular_huiteight)[3] = PI

\* C28: RoseEngineLatheRun::generate() changes only passes, segmented_lines
\* and the generated flag: base_config, cutting_bit, num_passes,
\* segments_per_pass, radius_step, the phase fields, the centre and the
\* specialized-generator selection are the same after the call as before it.
C28_GenerateFrame ==
    [][ (run # None /\ call'.op = "RoseEngineLatheRun::generate")
        => [run' EXCEPT !.passes = run.passes,
                        !.segmented_lines = run.segmented_lines,
                        !.generated = run.generated] = run ]_vars

\* generate() has run twice in a row on a run whose second pass was generated
\* with a phase or a radius of its own
C28_Witness ==
    /\ run # None /\ call.op = "RoseEngineLatheRun::generate" /\ hist.again
    /\ Len(run.passes) >= 2
    /\ \/ run.passes[2].config.phase # run.base_config.phase
       \/ run.passes[2].config.base_radius # run.base_config.base_radius

\* FlinqueLayer::new_with_center(radius, config, center_x, center_y)
FlinqueLayer_new_with_center(radius, config, center_x, center_y) ==
    IF radius <= 0 THEN Err(InvalidParameter)
    ELSE OkOf([config |-> config, radius |-> radius,
               center_x |-> center_x, center_y |-> center_y, lines |-> <<>>])

\* what the reference layer's constructor returns for the arguments of the
\* equivalence constructor call a
ReferenceOf(a) ==
    CASE a.op = "RoseEngineLatheRun::new_diamant" ->
           DiamantLayer_new_with_center(
               [num_circles |-> a.num_circles, circle_radius |-> a.circle_radius,
                resolution |-> a.resolution], a.center_x, a.center_y)
      [] a.op = "RoseEngineLatheRun::new_draperie" -> DraperieLayerOf(a)
      [] a.op = "RoseEngineLatheRun::new_limacon" -> LimaconLayerOf(a)
      [] a.op = "RoseEngineLatheRun::new_flinque" ->
           FlinqueLayer_new_with_center(
               a.radius,
               [num_petals |-> a.num_petals, num_waves |-> a.num_waves,
                wave_amplitude |-> a.wave_amplitude,
                wave_frequency |-> a.wave_frequency,
                inner_radius_ratio |-> a.inner_radius_ratio],
               a.center_x, a.center_y)
      [] a.op = "RoseEngineLatheRun::new_huiteight" -> HuitEightLayerOf(a)
      [] a.op = "RoseEngineLatheRun::new_paon" -> PaonLayerOf(a)

\* C29, as the claim states it: each equivalence constructor returns Ok for
\* exactly the arguments its reference layer's constructor accepts, and an
\* error for exactly those the reference rejects.
C29_AsStated ==
    call.op \in {"RoseEngineLatheRun::new_diamant", "RoseEngineLatheRun::new_draperie",
                 "RoseEngineLatheRun::new_limacon", "RoseEngineLatheRun::new_flinque",
                 "RoseEngineLatheRun::new_huiteight", "RoseEngineLatheRun::new_paon"}
    => (result.ok <=> ReferenceOf(call).ok)

\* C30, as the claim states it: whatever was written to the public fields,
\* the configuration generate() runs on satisfies the constructor's checks
\* (base_radius > 0, amplitude >= 0, resolution >= 10 for the lathe;
\* num_passes >= 1, segments_per_pass >= 1, base_radius > 0 for the run), and
\* a generated lathe has at least 11 tool-path points and two cut edges.
C30_AsStated ==
    /\ (lathe # None /\ call.op = "RoseEngineLathe::generate")
          => /\ lathe.config.base_radius > 0
             /\ lathe.config.amplitude >= 0
             /\ lathe.config.resolution >= MinResolution
             /\ Len(lathe.tool_path) >= MinResolution + 1
             /\ Len(lathe.cut_geometry.cut_edges) = 2
    /\ (run # None /\ call.op = "RoseEngineLatheRun::generate")
          => /\ run.num_passes >= 1
             /\ run.segments_per_pass >= 1
             /\ run.base_config.base_radius > 0
=============================================================================
